---- MODULE Spec2Model ----
(***************************************************************************)
(* State-machine model of the FAS Calendar front end: the calendar view    *)
(* (CalendarView.tsx), its overflow popover (CustomMorePopover), the       *)
(* detail card (EventDetailModal.tsx) and the application shell (App.tsx). *)
(*                                                                         *)
(* Conventions                                                             *)
(*  - null / undefined is the record Null.                                 *)
(*  - A JavaScript Date is [time |-> n], n in ticks (TicksPerDay ticks a   *)
(*    day, tick 0 = local midnight of day 0); an Invalid Date is           *)
(*    InvalidDate.                                                         *)
(*  - Day 0 is Sunday 1 February 2026; the model covers February to May    *)
(*    2026, whose month grids have 4, 5, 5 and 6 week rows.                *)
(*  - Pixel coordinates are whole pixels, so Math.round leaves them as     *)
(*    they are.                                                            *)
(*  - FullCalendar is a library outside the repository: its documented     *)
(*    behaviour (date navigation, datesSet, dayMaxEvents, moreLinkClick)   *)
(*    is modelled by the Fc* operators, the environment of the code.       *)
(***************************************************************************)
EXTENDS Integers, Sequences, FiniteSets, TLC

VARIABLES
  \* ---- data handed to CalendarView (App.tsx props)
  users,                    \* calendarData.users
  calendars,                \* calendarData.calendars: email -> source events
  oncallEvents,             \* calendarData.oncallEvents
  selectedUsers,            \* App state
  hasUserSelectionInitialized, \* App state
  showHolidays,             \* App state
  showOncall,               \* App state
  userColorOverrides,       \* App state: email -> colour chosen by the viewer
  now,                      \* Date.now() as read by the events memo
  events,                   \* CalendarView's `events` memo, as rendered
  \* ---- overflow popover (CalendarView / CustomMorePopover)
  morePopover,              \* CalendarView state: Null or MorePopoverState
  position,                 \* CustomMorePopover state (rendered left/top)
  lastMorePopoverPosition,  \* CalendarView ref
  pendingFrames,            \* requestAnimationFrame callbacks not yet run
  listeners,                \* document listeners registered by CustomMorePopover
  \* ---- detail card (App state shown by EventDetailModal)
  selectedEvent,
  eventAnchorRect,
  cardSize,                 \* EventDetailModal state
  \* ---- DOM measurements
  win,                      \* window.innerWidth / innerHeight
  popRect,                  \* bounding box size of the popover element
  cardBox,                  \* offsetWidth / offsetHeight of the detail card
  layout,                   \* bounding box of the month grid on screen
  \* ---- view controller (App state, CalendarView refs, FullCalendar)
  calendarView,             \* App state: requested view
  viewAnchorDate,           \* App state
  focusDate,                \* App state
  initialDateRef,           \* CalendarView ref
  monthWeekRowCount,        \* CalendarView state
  fcView,                   \* FullCalendar: api.view.type
  fcDate,                   \* FullCalendar: api.getDate()
  \* ---- application shell (App state)
  showKeyboardHelp,
  \* ---- month-grid metrics (CalendarView metrics effect)
  calendarViewportHeight,   \* CalendarView state: Null or [px |-> height]
  dayFrameMinHeight,        \* --calendar-day-frame-min-height: Null (unset) or [px |-> n]
  hasResizeObserver,        \* 'ResizeObserver' in globalThis
  \* ---- service worker (public/sw.js)
  swCache,                  \* the cache 'fas-calendar-v1': request URL -> stored response
  swFetches,                \* fetch events answered with respondWith, network pending
  swPuts,                   \* cache.put calls not yet completed
  swState,                  \* the worker's life cycle
  \* ---- observation of the last step (history, not program state)
  step

dataVars == <<users, calendars, oncallEvents, selectedUsers, hasUserSelectionInitialized,
              showHolidays, showOncall, userColorOverrides, now, events>>
popVars  == <<morePopover, position, lastMorePopoverPosition, pendingFrames, listeners>>
cardVars == <<selectedEvent, eventAnchorRect, cardSize>>
domVars  == <<win, popRect, cardBox, layout>>
navVars  == <<calendarView, viewAnchorDate, focusDate, initialDateRef,
              monthWeekRowCount, fcView, fcDate>>
shellVars == <<showKeyboardHelp>>
metricVars == <<calendarViewportHeight, dayFrameMinHeight, hasResizeObserver>>
workerVars == <<swCache, swFetches, swPuts, swState>>
sideVars == <<metricVars, workerVars>>
vars == <<dataVars, popVars, cardVars, domVars, navVars, shellVars, sideVars, step>>

Null == [null |-> TRUE]

Max(a, b) == IF a >= b THEN a ELSE b
Min(a, b) == IF a <= b THEN a ELSE b

\* DOMRect / EventAnchorRect
Rect(l, t, w, h) ==
  [left |-> l, top |-> t, right |-> l + w, bottom |-> t + h, width |-> w, height |-> h]

(***************************************************************************)
(* Time                                                                    *)
(***************************************************************************)
TicksPerDay == 2

Date(n) == [time |-> n]
InvalidDate == [invalid |-> TRUE]
IsValidDate(d) == "time" \in DOMAIN d

DayOf(t) == t \div TicksPerDay
StartOfDay(d) == d * TicksPerDay

\* new Date() when App first renders: some time on Wednesday 11 February 2026
TodayDay == 10
Today == Date(StartOfDay(TodayDay) + 1)

(***************************************************************************)
(* Colour helpers: getAdaptiveTextColor and lightenColor                   *)
(*                                                                         *)
(* A JavaScript string is the sequence of its characters. A number that    *)
(* may be NaN is [nan |-> BOOLEAN, val |-> Int].                           *)
(***************************************************************************)
LowerDigits == <<"0", "1", "2", "3", "4", "5", "6", "7", "8", "9",
                 "a", "b", "c", "d", "e", "f">>
UpperDigits == <<"A", "B", "C", "D", "E", "F">>

\* The value of a character as a digit of radix 16, -1 when it is none
DigitValue(c) ==
  IF \E i \in 1..16 : LowerDigits[i] = c
  THEN (CHOOSE i \in 1..16 : LowerDigits[i] = c) - 1
  ELSE IF \E i \in 1..6 : UpperDigits[i] = c
       THEN (CHOOSE i \in 1..6 : UpperDigits[i] = c) + 9
       ELSE -1

NaN == [nan |-> TRUE, val |-> 0]
Num(n) == [nan |-> FALSE, val |-> n]

\* String.prototype.slice(from, to) with 0 <= from <= to
Slice(s, from, to) == SubSeq(s, from + 1, Min(to, Len(s)))

\* String.prototype.replace(c, ''): the first occurrence of c is removed
RemoveFirst(s, c) ==
  IF \E i \in 1..Len(s) : s[i] = c
  THEN LET k == CHOOSE i \in 1..Len(s) : s[i] = c /\ \A j \in 1..(i - 1) : s[j] # c
       IN SubSeq(s, 1, k - 1) \o SubSeq(s, k + 1, Len(s))
  ELSE s

RECURSIVE SkipSpaces(_)
SkipSpaces(s) == IF s # <<>> /\ Head(s) = " " THEN SkipSpaces(Tail(s)) ELSE s

\* The value of the longest prefix of s made of radix-16 digits, read after
\* the digits already read have the value acc; -1 when no digit was read.
RECURSIVE ReadDigits(_, _, _)
ReadDigits(s, acc, any) ==
  IF s # <<>> /\ DigitValue(Head(s)) >= 0
  THEN ReadDigits(Tail(s), acc * 16 + DigitValue(Head(s)), TRUE)
  ELSE IF any THEN acc ELSE -1

\* Number.parseInt(s, 16): leading white space, a sign and a 0x prefix are
\* skipped, the longest run of digits is read, NaN when there is none.
ParseInt16(s) ==
  LET t == SkipSpaces(s)
      negative == t # <<>> /\ Head(t) = "-"
      u == IF t # <<>> /\ Head(t) \in {"-", "+"} THEN Tail(t) ELSE t
      v == IF Len(u) >= 2 /\ u[1] = "0" /\ u[2] \in {"x", "X"} THEN Tail(Tail(u)) ELSE u
      magnitude == ReadDigits(v, 0, FALSE)
  IN IF magnitude < 0 THEN NaN
     ELSE Num(IF negative THEN 0 - magnitude ELSE magnitude)

White == <<"#", "f", "f", "f", "f", "f", "f">>
Gray800 == <<"#", "1", "f", "2", "9", "3", "7">>
Gray900 == <<"#", "1", "1", "1", "8", "2", "7">>

\* 2 550 000 times the real number 0.2126 r/255 + 0.7152 g/255 + 0.0722 b/255
ScaledLuminance(r, g, b) == 2126 * r + 7152 * g + 722 * b

\* The colours whose luminance is the real number 0.75 and whose luminance
\* computed in double precision, as the expression is written, is
\* 0.7499999999999999: 23f66d, 45e2cf, 75db87, b6ca70, c7c0a1, e6c328, f7b959.
\* Every other colour of luminance 0.75 computes to 0.75 or 0.7500000000000001,
\* every colour of luminance 0.5 computes to 0.5 or less, and any other
\* luminance is further from both than the rounding error.
RoundsBelowThreeQuarters ==
  {<<35, 246, 109>>, <<69, 226, 207>>, <<117, 219, 135>>, <<182, 202, 112>>,
   <<199, 192, 161>>, <<230, 195, 40>>, <<247, 185, 89>>}

\* luminance < 0.75 as the double-precision comparison decides it
LuminanceBelowThreeQuarters(r, g, b) ==
  \/ ScaledLuminance(r, g, b) < 1912500
  \/ <<r, g, b>> \in RoundsBelowThreeQuarters

\* luminance > 0.5 as the double-precision comparison decides it
LuminanceAboveHalf(r, g, b) == ScaledLuminance(r, g, b) > 1275000

\* Variant: the computed dark text colour is the fallback's
DarkTextFallback == Gray900

\* The dark text colour of the computed branch
DarkText == Gray800

\* The text colour returned for empty or wrong-length input
safeDefault(preferLight) == IF preferLight THEN White ELSE Gray900

getAdaptiveTextColor(hex, preferLight) ==
  IF hex = <<>> THEN safeDefault(preferLight)
  ELSE LET normalized == RemoveFirst(hex, "#")
       IN IF Len(normalized) # 6 THEN safeDefault(preferLight)
          ELSE LET r == ParseInt16(Slice(normalized, 0, 2))
                   g == ParseInt16(Slice(normalized, 2, 4))
                   b == ParseInt16(Slice(normalized, 4, 6))
                   isNaN == r.nan \/ g.nan \/ b.nan
               IN IF preferLight
                  THEN IF ~isNaN /\ LuminanceBelowThreeQuarters(r.val, g.val, b.val)
                       THEN White ELSE DarkText
                  ELSE IF ~isNaN /\ LuminanceAboveHalf(r.val, g.val, b.val)
                       THEN DarkText ELSE White

\* Variant: the channel is scaled instead of being moved toward 255
mixChannelScaled(channel, percent) ==
  Min(255, ((channel * (100 + percent)) * 2 + 100) \div 200)

\* A ratio is a whole number of hundredths. Math.round rounds halves up, and
\* for these ratios the double-precision sum rounds as the exact one does.
mixChannel(channel, percent) ==
  Min(255, ((channel * 100 + (255 - channel) * percent) * 2 + 100) \div 200)

\* value.toString(16).padStart(2, '0') for 0 <= value <= 255
HexPair(value) == <<LowerDigits[(value \div 16) + 1], LowerDigits[(value % 16) + 1]>>

\* (num >> shift) & 0xff on the 32-bit two's complement of num, |num| < 2^24
ChannelOf(num, shift) == ((num % 16777216) \div shift) % 256

lightenColor(hex, percent) ==
  IF hex = <<>> THEN hex
  ELSE LET normalized == RemoveFirst(hex, "#")
       IN IF Len(normalized) # 6 THEN hex
          ELSE LET num == ParseInt16(normalized)
               IN IF num.nan THEN hex
                  ELSE <<"#">> \o HexPair(mixChannel(ChannelOf(num.val, 65536), percent))
                              \o HexPair(mixChannel(ChannelOf(num.val, 256), percent))
                              \o HexPair(mixChannel(ChannelOf(num.val, 1), percent))

\* A call of getAdaptiveTextColor on the colour string at hand
TextColorCall(hex, preferLight) ==
  /\ step.op = "colour"
  /\ step' = [op |-> "getAdaptiveTextColor", hex |-> hex, preferLight |-> preferLight,
              result |-> getAdaptiveTextColor(hex, preferLight)]
  /\ UNCHANGED <<dataVars, popVars, cardVars, domVars, shellVars, sideVars, navVars>>

\* A call of lightenColor on the colour string at hand
LightenCall(hex, percent) ==
  /\ step.op = "colour"
  /\ step' = [op |-> "lightenColor", hex |-> hex, percent |-> percent,
              result |-> lightenColor(hex, percent)]
  /\ UNCHANGED <<dataVars, popVars, cardVars, domVars, shellVars, sideVars, navVars>>

(***************************************************************************)
(* Source data                                                             *)
(***************************************************************************)
\* A dateTime string: Iso(n) parses to tick n, Garbage does not parse.
Iso(n) == [iso |-> n]
Garbage == [text |-> "not a date"]

\* new Date(dateTimeString)
ParseDate(s) == IF "iso" \in DOMAIN s THEN Date(s.iso) ELSE InvalidDate

\* A CalendarEvent as the API delivers it; start / end may be Null (missing).
SourceEvent(id, email, startObj, endObj) ==
  [id |-> id, userEmail |-> email, start |-> startObj, end |-> endObj]

TimedEvent(id, email, d) ==
  SourceEvent(id, email, [dateTime |-> Iso(StartOfDay(d))],
                         [dateTime |-> Iso(StartOfDay(d) + 1)])

\* data/holidays.ts createHoliday: 00:00:00 to 23:59:59 of the civil date
createHoliday(d) ==
  SourceEvent("holiday-" \o ToString(d), "holiday@taiwan",
              [dateTime |-> Iso(StartOfDay(d))],
              [dateTime |-> Iso(StartOfDay(d + 1) - 1)])

\* TAIWAN_HOLIDAYS restricted to 16 and 17 February 2026 (days 15 and 16)
HolidayDays == <<15, 16>>
TAIWAN_HOLIDAYS == [i \in 1..Len(HolidayDays) |-> createHoliday(HolidayDays[i])]

Emails == {"a@x", "b@x"}
\* Object.entries order of the calendars object
EmailOrder == <<"a@x", "b@x">>

Blue == <<"#", "1", "a", "7", "3", "e", "8">>
Coral == <<"#", "e", "6", "7", "c", "7", "3">>
UserA == [email |-> "a@x", color |-> Blue]
UserB == [email |-> "b@x", color |-> Coral]

\* Two API responses. The second drops a@x's e3 and b@x's e1 and adds b@x's
\* e4. Day 27 (Saturday 28 February) is the last cell of the February grid.
DataBefore ==
  [users |-> <<UserA, UserB>>,
   calendars |-> [e \in Emails |->
      IF e = "a@x" THEN <<TimedEvent("e1", e, 15), TimedEvent("e2", e, 15),
                          TimedEvent("e3", e, 16), TimedEvent("e5", e, 27),
                          TimedEvent("e6", e, 27)>>
                   ELSE <<TimedEvent("e1", e, 15), TimedEvent("e7", e, 27)>>],
   oncallEvents |-> <<TimedEvent("o1", "a@x", 16)>>]
DataAfter ==
  [users |-> <<UserA, UserB>>,
   calendars |-> [e \in Emails |->
      IF e = "a@x" THEN <<TimedEvent("e1", e, 15), TimedEvent("e2", e, 15),
                          TimedEvent("e5", e, 27), TimedEvent("e6", e, 27)>>
                   ELSE <<TimedEvent("e4", e, 15), TimedEvent("e7", e, 27)>>],
   oncallEvents |-> <<TimedEvent("o1", "a@x", 16)>>]
DataSets == {DataBefore, DataAfter}

(***************************************************************************)
(* Event normalizer: CalendarView's `events` memo                          *)
(***************************************************************************)

RECURSIVE Concat(_)
Concat(ss) == IF ss = <<>> THEN <<>> ELSE Head(ss) \o Concat(Tail(ss))

\* Reading event.end.dateTime / event.start.dateTime of a record whose end or
\* start object is missing raises a TypeError.
ReadThrows(event) == event.start = Null \/ event.end = Null

IsPast(endDate, nowT) == IF IsValidDate(endDate) THEN endDate.time < nowT ELSE FALSE

\* userColorMap: for each user the override, else the user's own colour
userColorMap(us, overrides) ==
  [e \in {us[i].email : i \in 1..Len(us)} |->
     IF e \in DOMAIN overrides THEN overrides[e]
     ELSE (CHOOSE u \in {us[i] : i \in 1..Len(us)} : u.email = e).color]

\* userColorMap[email] || fallback
baseColorOf(colorMap, email, fallback) ==
  IF email \in DOMAIN colorMap /\ colorMap[email] # <<>> THEN colorMap[email] ELSE fallback

PersonalFallback == <<"#", "3", "1", "7", "4", "a", "d">>
OncallFallback == <<"#", "4", "f", "4", "6", "e", "5">>
HolidayGreen == <<"#", "C", "8", "E", "6", "C", "9">>

\* isPast ? lightenColor(base, ratio) : base
backgroundOf(base, isPast, percent) == IF isPast THEN lightenColor(base, percent) ELSE base

PersonalVisual(email, event, nowT, colorMap) ==
  [id |-> email \o "-" \o event.id,
   backgroundColor |-> backgroundOf(baseColorOf(colorMap, email, PersonalFallback),
                                    IsPast(ParseDate(event.end.dateTime), nowT), 88),
   start |-> ParseDate(event.start.dateTime),
   end |-> ParseDate(event.end.dateTime),
   userEmail |-> email,
   isHoliday |-> FALSE,
   isOncall |-> FALSE,
   isPast |-> IsPast(ParseDate(event.end.dateTime), nowT)]

HolidayVisual(holiday, nowT) ==
  [id |-> "holiday-" \o holiday.id,
   backgroundColor |-> backgroundOf(HolidayGreen,
                                    IsPast(ParseDate(holiday.end.dateTime), nowT), 90),
   start |-> ParseDate(holiday.start.dateTime),
   end |-> ParseDate(holiday.end.dateTime),
   userEmail |-> "holiday@taiwan",
   isHoliday |-> TRUE,
   isOncall |-> FALSE,
   isPast |-> IsPast(ParseDate(holiday.end.dateTime), nowT)]

OncallVisual(event, nowT, colorMap) ==
  [id |-> event.userEmail \o "-" \o event.id,
   backgroundColor |-> backgroundOf(baseColorOf(colorMap, event.userEmail, OncallFallback),
                                    IsPast(ParseDate(event.end.dateTime), nowT), 88),
   start |-> ParseDate(event.start.dateTime),
   end |-> ParseDate(event.end.dateTime),
   userEmail |-> event.userEmail,
   isHoliday |-> FALSE,
   isOncall |-> TRUE,
   isPast |-> IsPast(ParseDate(event.end.dateTime), nowT)]

\* Object.entries(calendars).filter(([email]) => selectedUsers.includes(email))
filteredCalendars(cals, selected) ==
  SelectSeq(EmailOrder, LAMBDA e : e \in DOMAIN cals /\ e \in selected)

\* The source records the memo iterates over, in iteration order.
IteratedRecords(cals, selected, holidays, showH, oncall, showO) ==
  LET owners == filteredCalendars(cals, selected)
  IN Concat([k \in 1..Len(owners) |-> cals[owners[k]]])
       \o (IF showH THEN holidays ELSE <<>>)
       \o (IF showO /\ Len(oncall) > 0 THEN oncall ELSE <<>>)

\* The memo's value: threw = TRUE when building it raised (the render fails),
\* otherwise the list allEvents.
NormalizeEvents(cals, selected, holidays, showH, oncall, showO, nowT, colorMap) ==
  LET iterated == IteratedRecords(cals, selected, holidays, showH, oncall, showO)
      owners == filteredCalendars(cals, selected)
  IN IF \E i \in 1..Len(iterated) : ReadThrows(iterated[i])
     THEN [threw |-> TRUE, list |-> <<>>]
     ELSE [threw |-> FALSE,
           list |->
             Concat([k \in 1..Len(owners) |->
                       [i \in 1..Len(cals[owners[k]]) |->
                          PersonalVisual(owners[k], cals[owners[k]][i], nowT, colorMap)]])
             \o (IF showH
                 THEN [i \in 1..Len(holidays) |-> HolidayVisual(holidays[i], nowT)]
                 ELSE <<>>)
             \o (IF showO /\ Len(oncall) > 0
                 THEN [i \in 1..Len(oncall) |-> OncallVisual(oncall[i], nowT, colorMap)]
                 ELSE <<>>)]

\* The memo is rebuilt in the render that follows a change of its inputs.
RebuildEvents ==
  events' = NormalizeEvents(calendars', selectedUsers', TAIWAN_HOLIDAYS, showHolidays',
                            oncallEvents', showOncall', now',
                            userColorMap(users', userColorOverrides'))


(***************************************************************************)
(* Calendar arithmetic and FullCalendar's date navigation (library)        *)
(***************************************************************************)
\* February, March, April, May 2026
MonthLengths == <<28, 31, 30, 31>>

RECURSIVE DaysBefore(_)
DaysBefore(i) == IF i <= 1 THEN 0 ELSE DaysBefore(i - 1) + MonthLengths[i - 1]
MonthStart(i) == DaysBefore(i)
MonthEnd(i) == DaysBefore(i + 1)
CalendarEnd == MonthEnd(Len(MonthLengths))
MonthOf(d) == CHOOSE i \in 1..Len(MonthLengths) : MonthStart(i) <= d /\ d < MonthEnd(i)

\* firstDay={0}: weeks start on Sunday, and day 0 is a Sunday
WeekStart(d) == d - (d % 7)

Views == {"dayGridMonth", "timeGridWeek", "timeGridDay", "listWeek"}

\* First day of the view's current range (the month, the week, the day)
FcCurrentStart(view, date) ==
  LET d == DayOf(date.time)
  IN IF view = "dayGridMonth" THEN MonthStart(MonthOf(d))
     ELSE IF view = "timeGridDay" THEN d
     ELSE WeekStart(d)

\* Days [first, last) that the view renders; fixedWeekCount={false}
FcActiveDays(view, date) ==
  LET d == DayOf(date.time)
  IN IF view = "dayGridMonth"
     THEN [first |-> WeekStart(MonthStart(MonthOf(d))),
           last |-> WeekStart(MonthEnd(MonthOf(d)) - 1) + 7]
     ELSE IF view = "timeGridDay" THEN [first |-> d, last |-> d + 1]
     ELSE [first |-> WeekStart(d), last |-> WeekStart(d) + 7]

\* view.activeStart / view.activeEnd, the visible window
FcActiveRange(view, date) ==
  [start |-> Date(StartOfDay(FcActiveDays(view, date).first)),
   end |-> Date(StartOfDay(FcActiveDays(view, date).last))]

\* api.prev() / api.next(): the current date becomes the start of the
\* previous / next current range
FcPrevDate(view, date) ==
  LET d == DayOf(date.time)
  IN IF view = "dayGridMonth" THEN Date(StartOfDay(MonthStart(MonthOf(d) - 1)))
     ELSE IF view = "timeGridDay" THEN Date(StartOfDay(d - 1))
     ELSE Date(StartOfDay(WeekStart(d) - 7))
FcNextDate(view, date) ==
  LET d == DayOf(date.time)
  IN IF view = "dayGridMonth" THEN Date(StartOfDay(MonthEnd(MonthOf(d))))
     ELSE IF view = "timeGridDay" THEN Date(StartOfDay(d + 1))
     ELSE Date(StartOfDay(WeekStart(d) + 7))

\* The model stays inside February..May 2026
FcCanPrev(view, date) == FcCurrentStart(view, date) > 0
FcCanNext(view, date) ==
  LET d == DayOf(date.time)
  IN IF view = "dayGridMonth" THEN MonthOf(d) < Len(MonthLengths)
     ELSE IF view = "timeGridDay" THEN d + 1 < CalendarEnd
     ELSE WeekStart(d) + 7 < CalendarEnd

\* date-fns addMonths: same day of month, clamped to the target month's length
AddMonths(date, k) ==
  LET d == DayOf(date.time)
      m == MonthOf(d)
      dom == d - MonthStart(m)
      target == m + k
      day == MonthStart(target) + Min(dom, MonthLengths[target] - 1)
  IN Date(StartOfDay(day) + (date.time % TicksPerDay))

\* Math.round(a / b) for a >= 0, b > 0
RoundDiv(a, b) == (2 * a + b) \div (2 * b)

(***************************************************************************)
(* FullCalendar day cells (library behaviour, month grid)                  *)
(***************************************************************************)
\* dayMaxEvents={view === 'dayGridMonth' ? 2 : false}
DayMaxEvents(view) ==
  IF view = "dayGridMonth" THEN [limit |-> 2] ELSE [unlimited |-> TRUE]

\* The events FullCalendar lays out in day d's cell, in its row order.
FcDayBucket(list, d) ==
  SelectSeq(list, LAMBDA ev : IsValidDate(ev.start) /\ DayOf(ev.start.time) = d)

\* dayMaxEvents: at most `limit` events inline, the rest behind "+N more".
FcInline(bucket, budget) ==
  IF "limit" \in DOMAIN budget /\ Len(bucket) > budget.limit
  THEN SubSeq(bucket, 1, budget.limit) ELSE bucket
FcHidden(bucket, budget) ==
  IF "limit" \in DOMAIN budget /\ Len(bucket) > budget.limit
  THEN SubSeq(bucket, budget.limit + 1, Len(bucket)) ELSE <<>>

\* The argument FullCalendar passes to moreLinkClick / moreLinkContent.
FcMoreLinkArg(list, d, budget) ==
  [date |-> Date(StartOfDay(d)),
   allSegs |-> FcDayBucket(list, d),
   hiddenSegs |-> FcHidden(FcDayBucket(list, d), budget),
   num |-> Len(FcHidden(FcDayBucket(list, d), budget))]

\* moreLinkContent={(args) => `+${args.num} <more>`}: the number on the label
moreLinkContent(args) == "+" \o ToString(args.num)

\* The days on which the modelled data has events
EventDays == {15, 16, 27}

inlineOf(d) == FcInline(FcDayBucket(events.list, d), DayMaxEvents(calendarView))
moreArgOf(d) == FcMoreLinkArg(events.list, d, DayMaxEvents(calendarView))

\* Day d has a cell in the rendered month grid
DayVisible(d) ==
  /\ fcView = "dayGridMonth"
  /\ FcActiveDays(fcView, fcDate).first <= d
  /\ d < FcActiveDays(fcView, fcDate).last
hasMoreLink(d) == DayVisible(d) /\ moreArgOf(d).num > 0

\* Screen rectangles of the month grid's elements (browser layout): the grid
\* has 7 equal columns and one equal row per week.
GridRows == (FcActiveDays(fcView, fcDate).last - FcActiveDays(fcView, fcDate).first) \div 7
DayCellRect(d) ==
  LET first == FcActiveDays(fcView, fcDate).first
      cw == layout.width \div 7
      ch == layout.height \div GridRows
  IN Rect(layout.left + ((d - first) % 7) * cw, layout.top + ((d - first) \div 7) * ch, cw, ch)
\* the i-th inline chip of day d
ChipRect(d, i) ==
  Rect(DayCellRect(d).left + 2, DayCellRect(d).top + 4 + (i - 1) * 22,
       DayCellRect(d).width - 4, 20)

(***************************************************************************)
(* Geometry                                                                *)
(***************************************************************************)
\* CustomMorePopover placement effect constants
viewportPadding == 16
offset == 12
\* EventDetailModal positionStyle constants
cardViewportPadding == 16
gap == 12
DefaultCardWidth == 360
DefaultCardHeight == 320

\* CustomMorePopover: computePosition()
computePosition(anchorRect, pr, w) ==
  IF pr = Null
  THEN [left |-> anchorRect.left, top |-> anchorRect.top]
  ELSE
    LET left0 == anchorRect.right + offset
        left1 == IF left0 + pr.width + viewportPadding > w.innerWidth
                 THEN anchorRect.left - pr.width - offset ELSE left0
        left2 == IF left1 < viewportPadding THEN viewportPadding ELSE left1
        top0  == anchorRect.top
        top1  == IF top0 + pr.height + viewportPadding > w.innerHeight
                 THEN Max(viewportPadding, anchorRect.bottom - pr.height - offset)
                 ELSE top0
        top2  == IF top1 < viewportPadding THEN viewportPadding ELSE top1
    IN [left |-> left2, top |-> top2]

\* cardSize.width || 360, cardSize.height || 320
CardWidth(cs) == IF cs.width = 0 THEN DefaultCardWidth ELSE cs.width
CardHeight(cs) == IF cs.height = 0 THEN DefaultCardHeight ELSE cs.height

\* EventDetailModal: positionStyle
positionStyleOf(event, anchorRect, cs, w) ==
  IF event = Null THEN [none |-> TRUE]
  ELSE IF anchorRect = Null THEN [centered |-> TRUE]
  ELSE
    LET width == CardWidth(cs)
        height == CardHeight(cs)
        roomRight == w.innerWidth - anchorRect.right - cardViewportPadding
        roomLeft == anchorRect.left - cardViewportPadding
        canFitRight == roomRight >= width + gap
        canFitLeft == roomLeft >= width + gap
        left0 == IF canFitRight \/ (~canFitLeft /\ roomRight >= roomLeft)
                 THEN anchorRect.right + gap
                 ELSE anchorRect.left - width - gap
        left1 == IF left0 < cardViewportPadding THEN cardViewportPadding
                 ELSE IF left0 + width + cardViewportPadding > w.innerWidth
                      THEN w.innerWidth - width - cardViewportPadding
                      ELSE left0
        top0 == anchorRect.top
        top1 == IF top0 + height + cardViewportPadding > w.innerHeight
                THEN w.innerHeight - height - cardViewportPadding ELSE top0
        top2 == IF top1 < cardViewportPadding THEN cardViewportPadding ELSE top1
    IN [top |-> top2, left |-> left1]

positionStyle == positionStyleOf(selectedEvent, eventAnchorRect, cardSize, win)


(***************************************************************************)
(* Overflow popover: handleMoreLinkClick and CustomMorePopover             *)
(***************************************************************************)
\* requestAnimationFrame callbacks that may be outstanding at once
MaxPendingFrames == 2

\* Variant: the popover lists every event of the day
segsSourceAll(args) == args.allSegs

\* domArgs.hiddenSegs ?? domArgs.segs ?? domArgs.allSegs ?? []
segsSource(args) ==
  IF "hiddenSegs" \in DOMAIN args THEN args.hiddenSegs
  ELSE IF "segs" \in DOMAIN args THEN args.segs
  ELSE IF "allSegs" \in DOMAIN args THEN args.allSegs
  ELSE <<>>

\* Variant: a click while a popover is open keeps the open popover
handleMoreLinkClickKeep(args, dayCellRect, current, previousPosition) ==
  IF current # Null \/ dayCellRect = Null THEN current
  ELSE [date |-> args.date,
        events |-> args.hiddenSegs,
        anchorRect |-> dayCellRect,
        previousPosition |-> previousPosition]

\* handleMoreLinkClick: the MorePopoverState it stores; with no day cell it
\* returns 'popover' and stores nothing.
handleMoreLinkClick(args, dayCellRect, current, previousPosition) ==
  IF dayCellRect = Null THEN current
  ELSE [date |-> args.date,
        events |-> segsSource(args),
        anchorRect |-> dayCellRect,
        previousPosition |-> previousPosition]

\* CustomMorePopover's placement effect, run when `data` changes:
\* first render at previousPosition, move to the target on the next frame.
PlacementEffect(data) ==
  LET targetPosition == computePosition(data.anchorRect, popRect, win)
  IN /\ IF data.previousPosition # Null
        THEN /\ position' = data.previousPosition
             /\ pendingFrames' = Append(pendingFrames, [target |-> targetPosition, live |-> TRUE])
        ELSE /\ position' = targetPosition
             /\ pendingFrames' = pendingFrames
     /\ lastMorePopoverPosition' = targetPosition   \* onPositionSettled

\* document.addEventListener / removeEventListener: a listener is known by
\* its event type and capture flag, and by its function in the code; the
\* effect's cleanup removes the functions the same run of the effect added.
PointerDownListener == [type |-> "pointerdown", capture |-> TRUE]
KeyDownListener == [type |-> "keydown", capture |-> FALSE]

\* Variant: the pointer-down listener is removed without the capture flag
PointerDownRemoved == [type |-> "pointerdown", capture |-> FALSE]

\* What the dismissal effect's cleanup asks to remove for pointer-down
PointerDownRemoval == PointerDownListener

removeEventListener(ls, l) ==
  IF \E i \in 1..Len(ls) : ls[i] = l
  THEN LET k == CHOOSE i \in 1..Len(ls) : ls[i] = l /\ \A j \in 1..(i - 1) : ls[j] # l
       IN SubSeq(ls, 1, k - 1) \o SubSeq(ls, k + 1, Len(ls))
  ELSE ls

\* The dismissal effect's body and its cleanup
dismissalEffect(ls) == Append(Append(ls, PointerDownListener), KeyDownListener)
dismissalCleanup(ls) ==
  removeEventListener(removeEventListener(ls, PointerDownRemoval), KeyDownListener)

\* onClose = setMorePopover(null): CustomMorePopover unmounts, its position
\* state is gone and frame callbacks of the unmounted instance set nothing.
ClosePopover ==
  /\ morePopover' = Null
  /\ position' = Null
  /\ listeners' = dismissalCleanup(listeners)
  /\ pendingFrames' = [i \in 1..Len(pendingFrames) |-> [pendingFrames[i] EXCEPT !.live = FALSE]]
  /\ UNCHANGED lastMorePopoverPosition

\* A click on day d's "+N more" link, whose day cell has rectangle dayCellRect.
MoreLinkClick(d, dayCellRect) ==
  /\ ~events.threw
  /\ hasMoreLink(d)
  /\ Len(pendingFrames) < MaxPendingFrames
  /\ LET data == handleMoreLinkClick(moreArgOf(d), dayCellRect, morePopover,
                                     lastMorePopoverPosition)
     IN /\ morePopover' = data
        /\ IF dayCellRect # Null     \* a new object was stored: `data` changed
           THEN /\ PlacementEffect(data)
                \* mount, or a render with a new onClose function
                /\ listeners' = dismissalEffect(IF morePopover = Null THEN listeners
                                                ELSE dismissalCleanup(listeners))
           ELSE UNCHANGED <<position, lastMorePopoverPosition, pendingFrames, listeners>>
  /\ step' = [op |-> "moreLinkClick", day |-> d, label |-> moreLinkContent(moreArgOf(d)),
              priorDate |-> IF morePopover = Null THEN Null ELSE morePopover.date]
  /\ UNCHANGED <<dataVars, cardVars, domVars, shellVars, sideVars, navVars>>

\* Variant: the callback requested last runs first
newestCallback(frames) == Len(frames)

\* requestAnimationFrame: callbacks run in the order they were requested;
\* the index of the one that runs next
dueCallback(frames) == 1

\* The next animation frame runs the oldest outstanding callback. The
\* placement effect returns no cleanup and never calls cancelAnimationFrame,
\* so the callback of an unmounted instance (live = FALSE) runs as well; its
\* setPosition is then ignored by React.
RunFrame ==
  /\ pendingFrames # <<>>
  /\ LET k == dueCallback(pendingFrames)
         callback == pendingFrames[k]
     IN /\ pendingFrames' = SubSeq(pendingFrames, 1, k - 1)
                               \o SubSeq(pendingFrames, k + 1, Len(pendingFrames))
        /\ position' = IF callback.live /\ morePopover # Null
                       THEN callback.target ELSE position
        /\ step' = [op |-> "frame", live |-> callback.live, target |-> callback.target]
  /\ UNCHANGED <<morePopover, lastMorePopoverPosition, listeners,
                 dataVars, cardVars, domVars, shellVars, sideVars, navVars>>

(***************************************************************************)
(* Event activation: handleEventClick / openEventDetail / App              *)
(***************************************************************************)
\* Array.prototype.find: the first of the records of seq at the indices
\* `hits` that pass the test, Null (undefined) when none does.
FindFirst(seq, hits) ==
  IF hits = {} THEN Null ELSE seq[CHOOSE i \in hits : \A j \in hits : i <= j]

\* The indices of the records of seq whose id, prefixed with owner, is `id`
PersonalHits(seq, owner, id) == {i \in 1..Len(seq) : owner \o "-" \o seq[i].id = id}

\* The indices of the records of seq whose id, prefixed with their own
\* userEmail, is `id`
OncallHits(seq, id) == {i \in 1..Len(seq) : seq[i].userEmail \o "-" \o seq[i].id = id}

\* openEventDetail: the onEventClick call it makes, or Null when it makes none
openEventDetail(eventApi, anchor) ==
  LET userEmail == eventApi.userEmail
      fromCalendars ==
        IF userEmail \in DOMAIN calendars
        THEN FindFirst(calendars[userEmail],
                       PersonalHits(calendars[userEmail], userEmail, eventApi.id))
        ELSE Null
      originalEvent ==
        IF fromCalendars = Null /\ eventApi.isOncall
        THEN FindFirst(oncallEvents, OncallHits(oncallEvents, eventApi.id))
        ELSE fromCalendars
  IN IF originalEvent # Null THEN [event |-> originalEvent, anchor |-> anchor] ELSE Null

\* handleEventClick (inline chip): holidays return before anything happens
handleEventClick(eventApi, anchor) ==
  IF eventApi.isHoliday THEN Null ELSE openEventDetail(eventApi, anchor)

\* Variant: the anchor is dropped on the way to the detail card
DeliverWithoutAnchor(call) ==
  IF call = Null
  THEN UNCHANGED cardVars
  ELSE /\ selectedEvent' = call.event
       /\ eventAnchorRect' = Null
       /\ cardSize' = cardBox

\* App.handleEventClick, then EventDetailModal's layout effect measuring the card
DeliverEventClick(call) ==
  IF call = Null
  THEN UNCHANGED cardVars
  ELSE /\ selectedEvent' = call.event
       /\ eventAnchorRect' = call.anchor
       /\ cardSize' = cardBox

\* EventDetailModal onClose (App): clears the selection
CloseDetail ==
  /\ selectedEvent' = Null
  /\ eventAnchorRect' = Null
  /\ UNCHANGED cardSize

\* A click on an inline chip showing eventApi, whose element has rectangle rect.
EventClick(eventApi, rect) ==
  /\ LET call == handleEventClick(eventApi, rect)
     IN /\ DeliverEventClick(call)
        /\ step' = [op |-> "eventClick", el |-> eventApi, rect |-> rect, call |-> call]
  /\ UNCHANGED <<dataVars, popVars, domVars, shellVars, sideVars, navVars>>

\* A click on the i-th button of the popover's list.
PopoverEventClick(i, rect) ==
  /\ morePopover # Null
  /\ i \in 1..Len(morePopover.events)
  /\ LET call == openEventDetail(morePopover.events[i], rect)
     IN /\ DeliverEventClick(call)
        /\ step' = [op |-> "popoverEventClick", el |-> morePopover.events[i],
                    rect |-> rect, call |-> call]
  /\ UNCHANGED <<dataVars, popVars, domVars, shellVars, sideVars, navVars>>

\* The popover's own close button
PopoverCloseClick ==
  /\ morePopover # Null
  /\ ClosePopover
  /\ step' = [op |-> "popoverClose"]
  /\ UNCHANGED <<dataVars, cardVars, domVars, shellVars, sideVars, navVars>>

(***************************************************************************)
(* Dismissal listeners                                                     *)
(***************************************************************************)
\* Variant: no exception for overflow indicators
popoverClosesOutside(target) ==
  /\ target.isElement
  /\ target.kind # "popover"

\* CustomMorePopover handlePointerDown: does this pointer-down call onClose?
popoverClosesOn(target) ==
  /\ target.isElement
  /\ target.kind # "popover"         \* popoverRef.current.contains(target)
  /\ target.kind # "moreLink"        \* target.closest('.fc-daygrid-more-link')

\* EventDetailModal handlePointerDown: does this pointer-down call onClose?
detailClosesOn(target) ==
  /\ target.kind # "card"            \* cardRef.current.contains(target)
  /\ target.kind # "chip"            \* target.closest('.fc-daygrid-event')
  /\ target.kind # "popover"         \* target.closest('.custom-more-popover')

\* Is a listener like l registered on the document?
listening(l) == \E i \in 1..Len(listeners) : listeners[i] = l

PointerDown(target) ==
  /\ IF morePopover # Null /\ listening(PointerDownListener) /\ popoverClosesOn(target)
     THEN ClosePopover ELSE UNCHANGED popVars
  /\ IF selectedEvent # Null /\ detailClosesOn(target)
     THEN CloseDetail ELSE UNCHANGED cardVars
  /\ step' = [op |-> "pointerDown", target |-> target]
  /\ UNCHANGED <<dataVars, domVars, shellVars, sideVars, navVars>>

\* Escape: CustomMorePopover handleKeyDown and EventDetailModal handleKeyDown
KeyEscape ==
  /\ IF morePopover # Null /\ listening(KeyDownListener)
     THEN ClosePopover ELSE UNCHANGED popVars
  /\ IF selectedEvent # Null THEN CloseDetail ELSE UNCHANGED cardVars
  /\ step' = [op |-> "escape"]
  /\ UNCHANGED <<dataVars, domVars, shellVars, sideVars, navVars>>


(***************************************************************************)
(* View controller: App state, CalendarView effects, FullCalendar          *)
(*                                                                         *)
(* The handlers and effects are functions on a record n holding the        *)
(* navigation state (the navVars) and what the step has done so far:       *)
(* notes, the onDateRangeChange calls; changeViewCalls, the api.changeView *)
(* calls; focusChanged / viewChanged, whether the focusDate / view prop    *)
(* differs from the one of the previous render (the effects' dependency    *)
(* arrays).                                                                *)
(***************************************************************************)
NavState ==
  [calendarView |-> calendarView, viewAnchorDate |-> viewAnchorDate,
   focusDate |-> focusDate, initialDateRef |-> initialDateRef,
   monthWeekRowCount |-> monthWeekRowCount, fcView |-> fcView, fcDate |-> fcDate,
   notes |-> <<>>, changeViewCalls |-> 0, focusChanged |-> FALSE, viewChanged |-> FALSE]

\* setFocusDate(x): Date objects are fresh, so only null -> null is no change
setFocusDate(n, x) ==
  [n EXCEPT !.focusDate = x,
            !.focusChanged = (n.focusChanged \/ x # Null \/ n.focusDate # Null)]

\* App.handleDateRangeChange
handleDateRangeChange(n, range, activeDate) ==
  LET newAnchor == activeDate
      anchored == [n EXCEPT !.viewAnchorDate =
                     IF n.viewAnchorDate.time = newAnchor.time
                     THEN n.viewAnchorDate ELSE newAnchor]
  IN [setFocusDate(anchored, Null) EXCEPT
        !.notes = Append(n.notes, [range |-> range, activeDate |-> activeDate])]

\* Variant: the end of the window is lost
datesSetRangeCollapsed(arg) == [start |-> arg.start, end |-> arg.start]

\* The range handleDatesSet hands to onDateRangeChange
datesSetRange(arg) == [start |-> arg.start, end |-> arg.end]

\* CalendarView.handleDatesSet
handleDatesSet(n, arg) ==
  LET apiDate == n.fcDate
      fallbackDate == n.initialDateRef
      activeDate == IF apiDate.time # arg.start.time THEN apiDate ELSE fallbackDate
      notified == handleDateRangeChange(n, datesSetRange(arg), activeDate)
      activeDays == Max(1, RoundDiv(arg.end.time - arg.start.time, TicksPerDay))
      rows == Max(1, RoundDiv(activeDays, 7))
  IN IF arg.view = "dayGridMonth"
     THEN [notified EXCEPT !.monthWeekRowCount = rows]
     ELSE notified

\* FullCalendar moves to (view, date) and fires datesSet when the view or
\* the visible window changed.
FcMove(n, view, date) ==
  LET before == FcActiveRange(n.fcView, n.fcDate)
      after == FcActiveRange(view, date)
      moved == [n EXCEPT !.fcView = view, !.fcDate = date]
  IN IF after # before \/ view # n.fcView
     THEN handleDatesSet(moved, [start |-> after.start, end |-> after.end, view |-> view])
     ELSE moved

\* useEffect [initialDate]
initialDateEffect(n) == [n EXCEPT !.initialDateRef = n.viewAnchorDate]

\* Variant: the focusDate effect does not move the calendar
focusDateEffectSkipped(n) == [n EXCEPT !.focusChanged = FALSE]

\* useEffect [focusDate]: api.gotoDate(focusDate)
focusDateEffect(n) ==
  LET seen == [n EXCEPT !.focusChanged = FALSE]
  IN IF n.focusChanged /\ n.focusDate # Null
     THEN FcMove(seen, seen.fcView, n.focusDate)
     ELSE seen

\* useEffect [onCalendarReady] with App's inline onCalendarReady: the prop is
\* a new function on every App render, so the effect runs on every commit.
onCalendarReadyEffect(n) ==
  setFocusDate([n EXCEPT !.viewAnchorDate = n.fcDate], n.fcDate)

\* Variant: changeView is called on every commit
viewEffectAlways(n) == TRUE

\* useEffect [view]: does it call api.changeView(view)?
viewEffectRuns(n) == n.viewChanged /\ n.fcView # n.calendarView

viewEffect(n) ==
  LET seen == [n EXCEPT !.viewChanged = FALSE]
  IN IF viewEffectRuns(n)
     THEN FcMove([seen EXCEPT !.changeViewCalls = n.changeViewCalls + 1],
                 n.calendarView, seen.fcDate)
     ELSE seen

\* One React commit of App and CalendarView: the effects in declaration order
Commit(n) == viewEffect(onCalendarReadyEffect(focusDateEffect(initialDateEffect(n))))

\* onCalendarReady stores fresh Date objects on every commit, so App keeps
\* re-rendering; by value the state is stable after three commits.
Settle(n) == Commit(Commit(Commit(n)))

StoreNav(n) ==
  /\ calendarView' = n.calendarView
  /\ viewAnchorDate' = n.viewAnchorDate
  /\ focusDate' = n.focusDate
  /\ initialDateRef' = n.initialDateRef
  /\ monthWeekRowCount' = n.monthWeekRowCount
  /\ fcView' = n.fcView
  /\ fcDate' = n.fcDate

NavStep(op, n) ==
  /\ StoreNav(n)
  /\ step' = op @@ [notes |-> n.notes, changeViewCalls |-> n.changeViewCalls]
  /\ UNCHANGED <<dataVars, popVars, cardVars, domVars, shellVars, sideVars>>

\* Toolbar arrows, ArrowLeft / ArrowRight, and the wheel in month view
NavPrev(via) ==
  /\ FcCanPrev(fcView, fcDate)
  /\ via = "wheel" => fcView = "dayGridMonth"
  /\ NavStep([op |-> "prev", via |-> via],
             Settle(FcMove(NavState, fcView, FcPrevDate(fcView, fcDate))))
NavNext(via) ==
  /\ FcCanNext(fcView, fcDate)
  /\ via = "wheel" => fcView = "dayGridMonth"
  /\ NavStep([op |-> "next", via |-> via],
             Settle(FcMove(NavState, fcView, FcNextDate(fcView, fcDate))))

\* Today button and the T shortcut: api.today()
NavToday ==
  NavStep([op |-> "today"], Settle(FcMove(NavState, fcView, Date(now))))

\* View menu and the M / W / D / A shortcuts: setCalendarView(v)
RequestView(v) ==
  NavStep([op |-> "requestView", view |-> v, same |-> (v = calendarView)],
          Settle([NavState EXCEPT !.calendarView = v,
                                  !.viewChanged = (v # calendarView)]))

\* MiniMonthCalendar onDateSelect / onMonthChange:
\* setViewAnchorDate(date); setFocusDate(date)
JumpTo(date) == Settle(setFocusDate([NavState EXCEPT !.viewAnchorDate = date], date))

MiniDateSelect(d) ==
  /\ FcActiveDays("dayGridMonth", viewAnchorDate).first <= d
  /\ d < FcActiveDays("dayGridMonth", viewAnchorDate).last
  /\ d < CalendarEnd
  /\ NavStep([op |-> "jumpToDate", route |-> "onDateSelect", date |-> Date(StartOfDay(d))],
             JumpTo(Date(StartOfDay(d))))

MiniMonthChange(k) ==
  /\ MonthOf(DayOf(viewAnchorDate.time)) + k \in 1..Len(MonthLengths)
  /\ NavStep([op |-> "jumpToDate", route |-> "onMonthChange",
              date |-> AddMonths(viewAnchorDate, k)],
             JumpTo(AddMonths(viewAnchorDate, k)))

\* useKeyboardShortcuts handleKeyDown: the command a key-down runs, "none"
\* when the handler returns early or the switch has no case for the key.
\* key is event.key.toLowerCase(); target tells where the focus is.
EditableTargets == {"INPUT", "TEXTAREA", "contentEditable"}

shortcutCommand(key, target, modifier) ==
  IF target \in EditableTargets THEN "none"
  ELSE IF modifier THEN "none"
  ELSE CASE key = "t" -> "today"
         [] key = "m" -> "dayGridMonth"
         [] key = "w" -> "timeGridWeek"
         [] key = "d" -> "timeGridDay"
         [] key = "a" -> "listWeek"
         [] key = "arrowleft" -> "prev"
         [] key = "arrowright" -> "next"
         [] key = "[" -> "toggleSidebar"
         [] key = "f" -> "availabilityFinder"
         [] key = "/" -> "focusSearch"
         [] OTHER -> "none"

\* A key-down that runs no command: nothing is called and no state is set.
\* (The key-downs that run a command are the navigation actions above.)
IdleKeyDown(key, target, modifier) ==
  /\ shortcutCommand(key, target, modifier) = "none"
  /\ step' = [op |-> "keydown", key |-> key, target |-> target, modifier |-> modifier]
  /\ UNCHANGED <<dataVars, popVars, cardVars, domVars, shellVars, sideVars, navVars>>

\* The header's keyboard button: setShowKeyboardHelp(true)
HelpButtonClick ==
  /\ ~showKeyboardHelp
  /\ showKeyboardHelp' = TRUE
  /\ step' = [op |-> "helpButton"]
  /\ UNCHANGED <<dataVars, popVars, cardVars, domVars, navVars, sideVars>>

\* KeyboardShortcutsHelp onClose: setShowKeyboardHelp(false)
HelpClose ==
  /\ showKeyboardHelp
  /\ showKeyboardHelp' = FALSE
  /\ step' = [op |-> "helpClose"]
  /\ UNCHANGED <<dataVars, popVars, cardVars, domVars, navVars, sideVars>>

\* The navigation state once CalendarView has mounted: FullCalendar renders
\* initialView / initialDate, fires the first datesSet, the effects run.
MountedNav ==
  LET first == [calendarView |-> "dayGridMonth", viewAnchorDate |-> Today,
                focusDate |-> Null, initialDateRef |-> Today,
                monthWeekRowCount |-> 6, fcView |-> "dayGridMonth", fcDate |-> Today,
                notes |-> <<>>, changeViewCalls |-> 0,
                focusChanged |-> FALSE, viewChanged |-> FALSE]
      range == FcActiveRange(first.fcView, first.fcDate)
  IN Settle(handleDatesSet(first, [start |-> range.start, end |-> range.end,
                                   view |-> first.fcView]))

InitNav ==
  /\ calendarView = MountedNav.calendarView
  /\ viewAnchorDate = MountedNav.viewAnchorDate
  /\ focusDate = MountedNav.focusDate
  /\ initialDateRef = MountedNav.initialDateRef
  /\ monthWeekRowCount = MountedNav.monthWeekRowCount
  /\ fcView = MountedNav.fcView
  /\ fcDate = MountedNav.fcDate

(***************************************************************************)
(* Data and display preferences (App)                                      *)
(***************************************************************************)
UserEmails(us) == {us[i].email : i \in 1..Len(us)}

\* No error boundary wraps App (main.tsx): once a render has thrown, React
\* unmounts the tree and nothing on the page reacts any more.
Alive == ~events.threw

\* Variant of the selection effect that selects every user on each change
selectionEffectResets(us, selected, initialized) ==
  IF Len(us) = 0 THEN selected ELSE UserEmails(us)

\* App's selection effect, run when `users` changes
selectionEffect(us, selected, initialized) ==
  IF Len(us) = 0 THEN selected
  ELSE IF ~initialized THEN UserEmails(us)
  ELSE selected \cap UserEmails(us)

\* A (re)fetch of the calendar data delivers response ds.
DataRefresh(ds) ==
  /\ Alive
  /\ users' = ds.users
  /\ calendars' = ds.calendars
  /\ oncallEvents' = ds.oncallEvents
  /\ selectedUsers' = selectionEffect(ds.users, selectedUsers, hasUserSelectionInitialized)
  /\ UNCHANGED <<hasUserSelectionInitialized, showHolidays, showOncall,
                 userColorOverrides, now>>
  /\ RebuildEvents
  /\ step' = [op |-> "dataRefresh"]
  /\ UNCHANGED <<popVars, cardVars, domVars, shellVars, sideVars, navVars>>

\* App.handleUserSelectionChange
handleUserSelectionChange(emails) ==
  /\ Alive
  /\ selectedUsers' = emails
  /\ hasUserSelectionInitialized' = TRUE
  /\ UNCHANGED <<users, calendars, oncallEvents, showHolidays, showOncall,
                 userColorOverrides, now>>
  /\ RebuildEvents
  /\ UNCHANGED <<popVars, cardVars, domVars, shellVars, sideVars, navVars>>

\* UserSelector.toggleUser
ToggleUser(email) ==
  /\ email \in UserEmails(users)
  /\ handleUserSelectionChange(IF email \in selectedUsers
                               THEN selectedUsers \ {email}
                               ELSE selectedUsers \cup {email})
  /\ step' = [op |-> "toggleUser", email |-> email]

\* UserSelector.toggleAll
ToggleAll ==
  /\ handleUserSelectionChange(IF Cardinality(selectedUsers) = Len(users)
                               THEN {} ELSE UserEmails(users))
  /\ step' = [op |-> "toggleAll"]

\* App.handleUserColorChange, called by the UserSelector's colour menu
handleUserColorChange(email, color) ==
  /\ Alive
  /\ email \in UserEmails(users)
  /\ userColorOverrides' = [e \in DOMAIN userColorOverrides \cup {email} |->
                              IF e = email THEN color ELSE userColorOverrides[e]]
  /\ UNCHANGED <<users, calendars, oncallEvents, selectedUsers, hasUserSelectionInitialized,
                 showHolidays, showOncall, now>>
  /\ RebuildEvents
  /\ step' = [op |-> "userColorChange", email |-> email, color |-> color]
  /\ UNCHANGED <<popVars, cardVars, domVars, shellVars, sideVars, navVars>>

ToggleHolidays ==
  /\ Alive
  /\ showHolidays' = ~showHolidays
  /\ UNCHANGED <<users, calendars, oncallEvents, selectedUsers, hasUserSelectionInitialized,
                 showOncall, userColorOverrides, now>>
  /\ RebuildEvents
  /\ step' = [op |-> "toggleHolidays"]
  /\ UNCHANGED <<popVars, cardVars, domVars, shellVars, sideVars, navVars>>

ToggleOncall ==
  /\ Alive
  /\ showOncall' = ~showOncall
  /\ UNCHANGED <<users, calendars, oncallEvents, selectedUsers, hasUserSelectionInitialized,
                 showHolidays, userColorOverrides, now>>
  /\ RebuildEvents
  /\ step' = [op |-> "toggleOncall"]
  /\ UNCHANGED <<popVars, cardVars, domVars, shellVars, sideVars, navVars>>

(***************************************************************************)
(* User gestures on the rendered page                                      *)
(***************************************************************************)
\* the i-th button of the popover's list (browser layout)
PopoverButtonRect(i) ==
  Rect(position.left + 12, position.top + 56 + (i - 1) * 44, popRect.width - 24, 40)

ClickMoreLink == \E d \in EventDays : MoreLinkClick(d, DayCellRect(d))

ClickChip ==
  \E d \in EventDays :
    /\ ~events.threw
    /\ DayVisible(d)
    /\ \E i \in 1..Len(inlineOf(d)) : EventClick(inlineOf(d)[i], ChipRect(d, i))

ClickPopoverEvent ==
  /\ morePopover # Null
  /\ \E i \in 1..Len(morePopover.events) : PopoverEventClick(i, PopoverButtonRect(i))

\* The elements a pointer-down can land on
PointerTargets ==
  {[isElement |-> TRUE, kind |-> "other"]}
  \cup (IF morePopover # Null THEN {[isElement |-> TRUE, kind |-> "popover"]} ELSE {})
  \cup (IF selectedEvent # Null THEN {[isElement |-> TRUE, kind |-> "card"]} ELSE {})
  \cup {[isElement |-> TRUE, kind |-> "moreLink", day |-> d] :
          d \in {x \in EventDays : ~events.threw /\ hasMoreLink(x)}}
  \cup {[isElement |-> TRUE, kind |-> "chip", day |-> d] :
          d \in {x \in EventDays : ~events.threw /\ DayVisible(x) /\ Len(inlineOf(x)) > 0}}

PointerDownAnywhere == \E t \in PointerTargets : PointerDown(t)

\* The detail card's close buttons
DetailCloseClick ==
  /\ selectedEvent # Null
  /\ CloseDetail
  /\ step' = [op |-> "detailClose"]
  /\ UNCHANGED <<dataVars, popVars, domVars, shellVars, sideVars, navVars>>

\* CalendarView renders again while the popover is open: onPositionSettled is
\* a new function, so the placement effect runs again on the same data.
PopoverRerender ==
  /\ morePopover # Null
  /\ Len(pendingFrames) < MaxPendingFrames
  /\ PlacementEffect(morePopover)
  /\ listeners' = dismissalEffect(dismissalCleanup(listeners))
  /\ step' = [op |-> "rerender"]
  /\ UNCHANGED <<morePopover, dataVars, cardVars, domVars, shellVars, sideVars, navVars>>

(***************************************************************************)
(* Holidays on the clock: instants are seconds, a viewer's zone is its     *)
(* offset from UTC in hours, civil dates are day numbers.                  *)
(***************************************************************************)
SecondsPerDay == 24 * 60 * 60
SecondsPerHour == 60 * 60

\* new Date(`${date}T${time}${zone}`): the instant of a wall-clock time of
\* civil date d in the zone `zone` hours ahead of UTC
DateOfIso(d, secondOfDay, zone) == d * SecondsPerDay + secondOfDay - zone * SecondsPerHour

\* createHoliday, as CalendarView's memo reads it: the Date objects of
\* start.dateTime `${date}T00:00:00+08:00` and end.dateTime `${date}T23:59:59+08:00`
holidayDates(d) ==
  [start |-> DateOfIso(d, 0, 8),
   end |-> DateOfIso(d, SecondsPerDay - 1, 8),
   allDay |-> TRUE]

\* The civil date of instant t on the viewer's clock (FullCalendar has no
\* timeZone prop, so it reads Date objects in the browser's zone)
LocalDay(t, zone) == (t + zone * SecondsPerHour) \div SecondsPerDay

\* FullCalendar, allDay event: start and end are cut back to the start of
\* their local day; an end not after the start is dropped and the event
\* lasts one day. The day cells [first, last) that show the event.
FcAllDayCells(ev, zone) ==
  LET first == LocalDay(ev.start, zone)
      last == LocalDay(ev.end, zone)
  IN {c \in first..(IF last <= first THEN first ELSE last - 1) : TRUE}

\* The holiday of civil date d as rendered for a viewer in `zone`
RenderHoliday(d, zone) ==
  /\ step.op = "holiday"
  /\ step' = [op |-> "renderHoliday", date |-> d, zone |-> zone,
              cells |-> FcAllDayCells(holidayDates(d), zone)]
  /\ UNCHANGED <<dataVars, popVars, cardVars, domVars, shellVars, sideVars, navVars>>

(***************************************************************************)
(* Month-grid metrics: CalendarView's metrics effect                       *)
(*                                                                         *)
(* Heights are whole pixels. The effect has the dependency array [], so it *)
(* runs once, after the first render, and updateMetrics keeps reading the  *)
(* monthWeekRowCount of that render.                                       *)
(***************************************************************************)
Px(n) == [px |-> n]

\* useState(6): monthWeekRowCount in the render whose effect is kept
MountRowCount == 6

chromeOffset == 64

\* Variant: only the ceiling is applied
clampHeightCeiling(value) == Min(value, 120)

\* clampHeight, applied to the rounded value (the band's ends are whole, so
\* rounding before or after clamping gives the same number)
clampHeight(value) == Max(48, Min(value, 120))

\* Math.round(clampHeight((measuredHeight - chromeOffset) / rowCount))
RowHeight(measuredHeight, rowCount) ==
  clampHeight(RoundDiv(measuredHeight - chromeOffset, rowCount))

\* Variant: the stored height only grows
updateMetricsGrowing(measuredHeight) ==
  LET kept == IF calendarViewportHeight = Null THEN measuredHeight
              ELSE Max(calendarViewportHeight.px, measuredHeight)
  IN IF measuredHeight = 0
     THEN UNCHANGED <<calendarViewportHeight, dayFrameMinHeight>>
     ELSE /\ calendarViewportHeight' = Px(kept)
          /\ dayFrameMinHeight' = Px(RowHeight(kept, MountRowCount))

\* updateMetrics with measuredHeight: a falsy height returns early
updateMetrics(measuredHeight) ==
  IF measuredHeight = 0
  THEN UNCHANGED <<calendarViewportHeight, dayFrameMinHeight>>
  ELSE /\ calendarViewportHeight' = Px(measuredHeight)
       /\ dayFrameMinHeight' = Px(RowHeight(measuredHeight, MountRowCount))

\* The observer's callback: entries[0].contentRect.height when it is a
\* number, else a fresh measurement of the host element
ObserverResize(entry, hostHeight) ==
  /\ hasResizeObserver
  /\ LET measured == IF "height" \in DOMAIN entry THEN entry.height ELSE hostHeight
     IN /\ updateMetrics(measured)
        /\ step' = [op |-> "resize", via |-> "observer", measured |-> measured]
  /\ UNCHANGED <<hasResizeObserver, workerVars>>
  /\ UNCHANGED <<dataVars, popVars, cardVars, domVars, navVars, shellVars>>

\* The window 'resize' listener, registered when there is no ResizeObserver
WindowResize(hostHeight) ==
  /\ ~hasResizeObserver
  /\ updateMetrics(hostHeight)
  /\ step' = [op |-> "resize", via |-> "window", measured |-> hostHeight]
  /\ UNCHANGED <<hasResizeObserver, workerVars>>
  /\ UNCHANGED <<dataVars, popVars, cardVars, domVars, navVars, shellVars>>

\* After mount: updateMetrics() has measured the host once
InitMetrics(hostHeight, observer) ==
  /\ hasResizeObserver = observer
  /\ calendarViewportHeight = IF hostHeight = 0 THEN Null ELSE Px(hostHeight)
  /\ dayFrameMinHeight =
       IF hostHeight = 0 THEN Null ELSE Px(RowHeight(hostHeight, MountRowCount))

(***************************************************************************)
(* Service worker (public/sw.js)                                           *)
(***************************************************************************)
\* A URL is the sequence of its path segments: <<>> is '/', <<"api",
\* "events">> is '/api/events'.
STATIC_ASSETS == << <<>>, <<"index.html">>, <<"calendar.svg">>, <<"manifest.json">> >>
StaticUrls == {STATIC_ASSETS[i] : i \in 1..Len(STATIC_ASSETS)}
HomeUrl == <<>>

\* url.includes('/api/'): a segment 'api' that is followed by a slash
IncludesApi(url) == \E i \in 1..Len(url) : url[i] = "api" /\ i < Len(url)

Request(url, method, mode) == [url |-> url, method |-> method, mode |-> mode]
Response(status, body) == [status |-> status, body |-> body]
EmptyCache == [u \in {} |-> Null]
CacheWith(cache, url, entry) ==
  [u \in DOMAIN cache \cup {url} |-> IF u = url THEN entry ELSE cache[u]]

\* caches.match(request): the stored entry of the request's URL, if any
cachesMatch(url) == IF url \in DOMAIN swCache THEN swCache[url] ELSE Null

\* cache.addAll rejects when a response is not ok (200..299) or is partial
addAllAccepts(response) ==
  response.status \in 200..299 /\ response.status # 206

\* The install event: cache.addAll(STATIC_ASSETS) inside waitUntil. When a
\* response is refused the promise rejects, nothing is stored and the
\* worker is discarded; otherwise it is activated (skipWaiting, activate).
Install(responses) ==
  /\ swState = "installing"
  /\ LET ok == \A u \in StaticUrls : addAllAccepts(responses[u])
     IN /\ swCache' = IF ok
                      THEN [u \in StaticUrls |->
                              [response |-> responses[u], storedBy |-> "addAll"]]
                      ELSE swCache
        /\ swState' = IF ok THEN "activated" ELSE "redundant"
        /\ step' = [op |-> "install", ok |-> ok]
  /\ UNCHANGED <<swFetches, swPuts, metricVars>>
  /\ UNCHANGED <<dataVars, popVars, cardVars, domVars, navVars, shellVars>>

\* Most fetch events the model keeps waiting for the network at a time
MaxInFlight == 2

\* Does the fetch listener call respondWith for the request?
handlesRequest(req) == req.method = "GET" /\ ~IncludesApi(req.url)

\* The fetch event of request req
FetchEvent(req) ==
  /\ swState = "activated"
  /\ req \notin swFetches
  /\ handlesRequest(req) => Cardinality(swFetches) < MaxInFlight
  /\ swFetches' = IF handlesRequest(req) THEN swFetches \cup {req} ELSE swFetches
  /\ step' = [op |-> "fetch", request |-> req, responded |-> handlesRequest(req)]
  /\ UNCHANGED <<swCache, swPuts, swState, metricVars>>
  /\ UNCHANGED <<dataVars, popVars, cardVars, domVars, navVars, shellVars>>

\* Variant that stores every ok response
storesResponseOk(response) == response.status \in 200..299

\* Does the fetch listener store the network's response?
storesResponse(response) == response.status = 200

\* fetch(event.request) resolves: the response goes to the page, and a
\* cache.put of its clone is started when its status is 200
NetworkResolves(req, response) ==
  /\ req \in swFetches
  /\ swFetches' = swFetches \ {req}
  /\ swPuts' = IF storesResponse(response)
               THEN swPuts \cup {[request |-> req, response |-> response]}
               ELSE swPuts
  /\ step' = [op |-> "respond", request |-> req, response |-> response,
              from |-> "network", networkFailed |-> FALSE]
  /\ UNCHANGED <<swCache, swState, metricVars>>
  /\ UNCHANGED <<dataVars, popVars, cardVars, domVars, navVars, shellVars>>

\* What the catch branch answers with: the cached entry of the request,
\* else for a navigation the cached '/', else a 503 response
offlineAnswer(req) ==
  LET cachedResponse == cachesMatch(req.url)
      home == cachesMatch(HomeUrl)
  IN IF cachedResponse # Null
     THEN [response |-> cachedResponse.response, from |-> "cache",
           storedBy |-> cachedResponse.storedBy]
     ELSE IF req.mode = "navigate"
     THEN (IF home # Null
           THEN [response |-> home.response, from |-> "cache",
                 storedBy |-> home.storedBy]
           ELSE [response |-> Null, from |-> "none", storedBy |-> "none"])
     ELSE [response |-> Response(503, "offline"), from |-> "worker",
           storedBy |-> "none"]

\* fetch(event.request) rejects
NetworkFails(req) ==
  /\ req \in swFetches
  /\ swFetches' = swFetches \ {req}
  /\ LET answer == offlineAnswer(req)
     IN step' = [op |-> "respond", request |-> req, response |-> answer.response,
                 from |-> answer.from, storedBy |-> answer.storedBy,
                 networkFailed |-> TRUE]
  /\ UNCHANGED <<swCache, swPuts, swState, metricVars>>
  /\ UNCHANGED <<dataVars, popVars, cardVars, domVars, navVars, shellVars>>

\* caches.open(CACHE_NAME).then(cache => cache.put(request, clone)) completes
CachePut(put) ==
  /\ put \in swPuts
  /\ swPuts' = swPuts \ {put}
  /\ swCache' = CacheWith(swCache, put.request.url,
                          [response |-> put.response, storedBy |-> "put"])
  /\ step' = [op |-> "put", request |-> put.request, response |-> put.response]
  /\ UNCHANGED <<swFetches, swState, metricVars>>
  /\ UNCHANGED <<dataVars, popVars, cardVars, domVars, navVars, shellVars>>

\* The service worker before it is installed
InitWorker ==
  /\ swCache = EmptyCache
  /\ swFetches = {}
  /\ swPuts = {}
  /\ swState = "installing"

(***************************************************************************)
(* Initial states and specifications                                       *)
(***************************************************************************)
Window(w, h) == [innerWidth |-> w, innerHeight |-> h]
Size(w, h) == [width |-> w, height |-> h]

\* localStorage holds no 'fas-calendar:user-colors' item
NoOverrides == [e \in {} |-> <<>>]

InitData(ds) ==
  /\ users = ds.users
  /\ calendars = ds.calendars
  /\ oncallEvents = ds.oncallEvents
  /\ selectedUsers = UserEmails(ds.users)
  /\ hasUserSelectionInitialized = FALSE
  /\ showHolidays = TRUE
  /\ showOncall = TRUE
  /\ userColorOverrides = NoOverrides
  /\ now = Today.time
  /\ events = NormalizeEvents(ds.calendars, UserEmails(ds.users), TAIWAN_HOLIDAYS, TRUE,
                              ds.oncallEvents, TRUE, Today.time,
                              userColorMap(ds.users, NoOverrides))

InitSurfaces ==
  /\ morePopover = Null
  /\ position = Null
  /\ lastMorePopoverPosition = Null
  /\ pendingFrames = <<>>
  /\ listeners = <<>>
  /\ selectedEvent = Null
  /\ eventAnchorRect = Null
  /\ cardSize = Size(0, 0)
  /\ showKeyboardHelp = FALSE
  /\ step = [op |-> "init"]

\* Popover life cycle and event activation on one screen geometry
InitPopover ==
  /\ InitData(DataBefore)
  /\ InitSurfaces
  /\ InitMetrics(544, TRUE)
  /\ InitWorker
  /\ InitNav
  /\ win = Window(800, 600)
  /\ popRect = Size(240, 200)
  /\ cardBox = Size(360, 320)
  /\ layout = Rect(100, 100, 630, 480)

NextPopover ==
  \/ ClickMoreLink
  \/ RunFrame
  \/ ClickChip
  \/ ClickPopoverEvent
  \/ PopoverCloseClick
  \/ PointerDownAnywhere
  \/ KeyEscape
  \/ DetailCloseClick
  \/ \E ds \in DataSets : DataRefresh(ds)
  \/ PopoverRerender

SpecPopover == InitPopover /\ [][NextPopover]_vars

\* Placement over screen geometries: the window, the content boxes and the
\* place of the month grid are drawn here; the grid may end flush with the
\* window's right and bottom edges.
Windows == {Window(800, 600), Window(400, 360)}
PopSizes == {Size(240, 200), Size(200, 150)}
CardBoxes == {Size(0, 0), Size(300, 200)}
Layouts(w) ==
  LET gw == 7 * ((w.innerWidth - 60) \div 7)
      gh == 4 * ((w.innerHeight - 100) \div 4)
  IN {Rect(w.innerWidth - gw - gx, w.innerHeight - gh - gy, gw, gh) :
        gx \in {0, 30}, gy \in {0, 40}}

InitPlace ==
  /\ InitData(DataBefore)
  /\ InitSurfaces
  /\ InitMetrics(544, TRUE)
  /\ InitWorker
  /\ InitNav
  /\ win \in Windows
  /\ popRect \in PopSizes
  /\ cardBox \in CardBoxes
  /\ layout \in Layouts(win)

NextPlace ==
  \/ ClickMoreLink
  \/ RunFrame
  \/ ClickChip
  \/ ClickPopoverEvent
  \/ KeyEscape

SpecPlace == InitPlace /\ [][NextPlace]_vars

\* Navigation
InitNavigation ==
  /\ InitData(DataBefore)
  /\ InitSurfaces
  /\ InitMetrics(544, TRUE)
  /\ InitWorker
  /\ InitNav
  /\ win = Window(800, 600)
  /\ popRect = Size(240, 200)
  /\ cardBox = Size(360, 320)
  /\ layout = Rect(100, 100, 630, 480)

NavSources == {"button", "key", "wheel"}
\* The days picked in the mini calendar
JumpDays == {0, 10, 27, 28, 58, 62, 89, 119}

\* The keys pressed and where the focus is when they are
PressedKeys == {"?", "t"}
KeyTargets == {"BODY", "INPUT"}

NextNav ==
  \/ \E via \in NavSources : NavPrev(via)
  \/ \E via \in NavSources : NavNext(via)
  \/ NavToday
  \/ \E v \in Views : RequestView(v)
  \/ \E d \in JumpDays : MiniDateSelect(d)
  \/ \E key \in PressedKeys, target \in KeyTargets, modifier \in BOOLEAN :
        IdleKeyDown(key, target, modifier)
  \/ HelpButtonClick
  \/ HelpClose

SpecNav == InitNavigation /\ [][NextNav]_vars

\* Normalization of API responses that hold bad records, and in which the
\* on-call record of a@x has an id of its own or the id of a record of
\* a@x's calendar
RecordKinds == {"ok", "badStart", "badEnd", "noStart", "noEnd"}
MakeRecord(id, email, d, kind) ==
  SourceEvent(id, email,
    IF kind = "noStart" THEN Null
    ELSE [dateTime |-> IF kind = "badStart" THEN Garbage ELSE Iso(StartOfDay(d))],
    IF kind = "noEnd" THEN Null
    ELSE [dateTime |-> IF kind = "badEnd" THEN Garbage ELSE Iso(StartOfDay(d) + 1)])

NormBatches ==
  {[users |-> <<UserA, UserB>>,
    calendars |-> [e \in Emails |->
       IF e = "a@x" THEN <<MakeRecord("n1", e, 15, k1), MakeRecord("n2", e, 15, k2)>>
                    ELSE <<TimedEvent("n3", e, 16)>>],
    oncallEvents |-> <<MakeRecord(oncallId, "a@x", 16, k3)>>] :
     k1 \in RecordKinds, k2 \in RecordKinds, k3 \in {"ok", "badStart", "noEnd"},
     oncallId \in {"o1", "n1"}}

InitNorm ==
  /\ \E ds \in NormBatches : InitData(ds)
  /\ InitSurfaces
  /\ InitMetrics(544, TRUE)
  /\ InitWorker
  /\ InitNav
  /\ win = Window(800, 600)
  /\ popRect = Size(240, 200)
  /\ cardBox = Size(360, 320)
  /\ layout = Rect(100, 100, 630, 480)

NextNorm ==
  \/ \E ds \in NormBatches : DataRefresh(ds)
  \/ \E e \in Emails : ToggleUser(e)
  \/ ToggleAll
  \/ ToggleHolidays
  \/ ToggleOncall

SpecNorm == InitNorm /\ [][NextNorm]_vars

\* Colour helpers applied to colour strings: an optional '#', three pairs of
\* characters and an optional seventh character, and the short strings.
ChannelTexts ==
  {<<"0", "0">>, <<"1", "a">>, <<"7", "3">>, <<"e", "8">>, <<"2", "3">>, <<"f", "6">>,
   <<"6", "d">>, <<"0", "4">>, <<"f", "3">>, <<"e", "6">>, <<"f", "f">>, <<"C", "8">>,
   <<"E", "6">>, <<"C", "9">>}
BrokenTexts == {<<"z", "z">>, <<"1", "g">>, <<"-", "1">>, <<"0", "x">>}
PairTexts == ChannelTexts \cup BrokenTexts
ColourTexts ==
  {<<>>, <<"#">>, <<"f", "f", "f">>, <<"#", "f", "f", "f">>}
    \cup {pre \o p1 \o p2 \o p3 :
            pre \in {<<>>, <<"#">>}, p1 \in PairTexts, p2 \in PairTexts, p3 \in PairTexts}
    \cup {pre \o p1 \o p1 \o p1 \o <<"0">> : pre \in {<<>>, <<"#">>}, p1 \in ChannelTexts}
Percents == {0, 50, 88, 100}

\* InitPopover with a colour string at hand instead of the "init" mark
InitColour ==
  /\ InitData(DataBefore)
  /\ InitNav
  /\ morePopover = Null
  /\ position = Null
  /\ lastMorePopoverPosition = Null
  /\ pendingFrames = <<>>
  /\ listeners = <<>>
  /\ selectedEvent = Null
  /\ eventAnchorRect = Null
  /\ cardSize = Size(0, 0)
  /\ showKeyboardHelp = FALSE
  /\ InitMetrics(544, TRUE)
  /\ InitWorker
  /\ win = Window(800, 600)
  /\ popRect = Size(240, 200)
  /\ cardBox = Size(360, 320)
  /\ layout = Rect(100, 100, 630, 480)
  /\ \E hex \in ColourTexts : step = [op |-> "colour", hex |-> hex]

NextColour ==
  \/ \E preferLight \in BOOLEAN : TextColorCall(step.hex, preferLight)
  \/ \E percent \in Percents : LightenCall(step.hex, percent)

SpecColour == InitColour /\ [][NextColour]_vars

\* The derived event list under changes of data and display preferences.
\* DataPast holds an event that has ended (day 5) and one user only;
\* DataBroken holds a record without a start next to a valid one.
Green == <<"#", "0", "b", "8", "0", "4", "3">>
ColourChoices == {Green, Coral}
DataPast ==
  [users |-> <<UserA>>,
   calendars |-> [e \in {"a@x"} |-> <<TimedEvent("p1", e, 5), TimedEvent("e1", e, 15)>>],
   oncallEvents |-> <<TimedEvent("o2", "a@x", 5)>>]
DataBroken ==
  [users |-> <<UserA, UserB>>,
   calendars |-> [e \in Emails |->
      IF e = "a@x" THEN <<MakeRecord("n1", e, 15, "noStart"), TimedEvent("e2", e, 15)>>
                   ELSE <<TimedEvent("e1", e, 15)>>],
   oncallEvents |-> <<>>]
\* A response that lists no users
DataNone ==
  [users |-> <<>>, calendars |-> [e \in {} |-> <<>>], oncallEvents |-> <<>>]
DeriveBatches == {DataBefore, DataAfter, DataPast, DataBroken, DataNone}

InitDerive ==
  /\ \E ds \in {DataBefore, DataPast} : InitData(ds)
  /\ InitSurfaces
  /\ InitMetrics(544, TRUE)
  /\ InitWorker
  /\ InitNav
  /\ win = Window(800, 600)
  /\ popRect = Size(240, 200)
  /\ cardBox = Size(360, 320)
  /\ layout = Rect(100, 100, 630, 480)

NextDerive ==
  \/ \E ds \in DeriveBatches : DataRefresh(ds)
  \/ \E e \in Emails : ToggleUser(e)
  \/ ToggleAll
  \/ ToggleHolidays
  \/ ToggleOncall
  \/ \E e \in Emails, c \in ColourChoices : handleUserColorChange(e, c)

SpecDerive == InitDerive /\ [][NextDerive]_vars

\* The state of InitPopover without the mark of the last step
InitIdle ==
  /\ InitData(DataBefore)
  /\ InitNav
  /\ morePopover = Null
  /\ position = Null
  /\ lastMorePopoverPosition = Null
  /\ pendingFrames = <<>>
  /\ listeners = <<>>
  /\ selectedEvent = Null
  /\ eventAnchorRect = Null
  /\ cardSize = Size(0, 0)
  /\ showKeyboardHelp = FALSE
  /\ InitMetrics(544, TRUE)
  /\ InitWorker
  /\ win = Window(800, 600)
  /\ popRect = Size(240, 200)
  /\ cardBox = Size(360, 320)
  /\ layout = Rect(100, 100, 630, 480)

\* Holidays seen from the zones UTC-12 .. UTC+14
HolidayDates == 0..7
ViewerZones == -12..14

InitHoliday ==
  /\ InitIdle
  /\ \E d \in HolidayDates : step = [op |-> "holiday", date |-> d]

NextHoliday == \E zone \in ViewerZones : RenderHoliday(step.date, zone)

SpecHoliday == InitHoliday /\ [][NextHoliday]_vars

\* Month-grid metrics under navigation and resize notifications
Heights == {0, 100, 352, 403, 544, 784, 1000}
ObserverEntries == {[height |-> h] : h \in Heights} \cup {[contentRect |-> "none"]}

InitMetricsSpec ==
  /\ InitData(DataBefore)
  /\ InitSurfaces
  /\ \E h \in Heights, observer \in BOOLEAN : InitMetrics(h, observer)
  /\ InitWorker
  /\ InitNav
  /\ win = Window(800, 600)
  /\ popRect = Size(240, 200)
  /\ cardBox = Size(360, 320)
  /\ layout = Rect(100, 100, 630, 480)

NextMetrics ==
  \/ \E entry \in ObserverEntries, h \in Heights : ObserverResize(entry, h)
  \/ \E h \in Heights : WindowResize(h)
  \/ \E via \in {"button"} : NavPrev(via)
  \/ \E via \in {"button"} : NavNext(via)
  \/ \E v \in {"dayGridMonth", "timeGridWeek"} : RequestView(v)

SpecMetrics == InitMetricsSpec /\ [][NextMetrics]_vars

\* The service worker under page requests and network outcomes. At install
\* one of two static assets answers with any of InstallStatuses, the others
\* with 200.
InstallStatuses == {200, 203, 404}
InstallResponses ==
  {[u \in StaticUrls |-> Response(IF u = odd THEN s ELSE 200, "precached")] :
     odd \in {HomeUrl, <<"calendar.svg">>}, s \in InstallStatuses}
PageRequests ==
  {Request(<<>>, "GET", "navigate"),
   Request(<<"calendar.svg">>, "GET", "no-cors"),
   Request(<<"assets", "app.js">>, "GET", "no-cors"),
   Request(<<"settings">>, "GET", "navigate"),
   Request(<<"api", "events">>, "GET", "cors"),
   Request(<<"api", "sync">>, "POST", "cors"),
   Request(<<"feedback">>, "POST", "cors")}
NetworkResponses ==
  {Response(200, "fresh"), Response(203, "fresh"), Response(404, "missing")}

InitWorkerSpec ==
  /\ InitIdle
  /\ step = [op |-> "idle"]

NextWorker ==
  \/ \E responses \in InstallResponses : Install(responses)
  \/ \E req \in PageRequests : FetchEvent(req)
  \/ \E req \in PageRequests, response \in NetworkResponses : NetworkResolves(req, response)
  \/ \E req \in PageRequests : NetworkFails(req)
  \/ \E put \in swPuts : CachePut(put)

SpecWorker == InitWorkerSpec /\ [][NextWorker]_vars

(***************************************************************************)
(* Properties                                                              *)
(***************************************************************************)
Last(seq) == seq[Len(seq)]

\* The box of size w x h at pos lies inside [padding, viewport - padding]
Contained(pos, w, h) ==
  /\ viewportPadding <= pos.left
  /\ pos.left + w <= win.innerWidth - viewportPadding
  /\ viewportPadding <= pos.top
  /\ pos.top + h <= win.innerHeight - viewportPadding

PopoverTargetContained ==
  lastMorePopoverPosition # Null =>
    Contained(lastMorePopoverPosition, popRect.width, popRect.height)

CardContained ==
  (selectedEvent # Null /\ eventAnchorRect # Null) =>
    Contained(positionStyle, CardWidth(cardSize), CardHeight(cardSize))

\* C1: every position computed by computePosition (overflow popover) and by
\* positionStyle (detail card) keeps the content box inside
\* [16, viewport - 16] on both axes, for every anchor rectangle, including
\* anchors flush against a viewport edge.
C1_PlacementContained == PopoverTargetContained /\ CardContained

\* The source record behind a chip: the record of the chip's category whose
\* owner and id compose the chip's id; Null when the data holds none.
SourceOf(el) ==
  IF el.isHoliday THEN Null
  ELSE IF el.isOncall
       THEN FindFirst(oncallEvents, OncallHits(oncallEvents, el.id))
       ELSE IF el.userEmail \in DOMAIN calendars
            THEN FindFirst(calendars[el.userEmail],
                           PersonalHits(calendars[el.userEmail], el.userEmail, el.id))
            ELSE Null

\* The inline budget of the month view
InlineBudget == DayMaxEvents("dayGridMonth").limit

\* C2: a day with k events and inline budget b = 2 shows all k inline and no
\* indicator when k <= b; when k > b it shows the bucket's first b inline,
\* the indicator reads k - b, and the popover opened from that indicator
\* lists exactly the remaining k - b events in bucket order. The grid is
\* examined after every step that rebuilds the event list and at every
\* indicator click.
C2_InlineOverflowSplit ==
  [][/\ (events' # events \/ step'.op = "moreLinkClick") => \A d \in EventDays :
          LET bucket == FcDayBucket(events'.list, d)
              k == Len(bucket)
              shown == inlineOf(d)'
              link == hasMoreLink(d)'
          IN /\ k <= InlineBudget => (shown = bucket /\ ~link)
             /\ k > InlineBudget =>
                  /\ shown = SubSeq(bucket, 1, InlineBudget)
                  /\ link
                  /\ moreLinkContent(moreArgOf(d))' = "+" \o ToString(k - InlineBudget)
     /\ step'.op = "moreLinkClick" =>
          LET bucket == FcDayBucket(events'.list, step'.day)
          IN /\ morePopover' # Null
             /\ morePopover'.events = SubSeq(bucket, InlineBudget + 1, Len(bucket))
             /\ step'.label = "+" \o ToString(Len(morePopover'.events))
    ]_vars

\* C2 witness: a popover opened from a "+2" indicator while another day
\* shows its two events inline without an indicator.
C2_Witness ==
  /\ step.op = "moreLinkClick"
  /\ morePopover # Null
  /\ Len(morePopover.events) = 2
  /\ Len(FcDayBucket(events.list, step.day)) = 4
  /\ \E d \in EventDays : Len(FcDayBucket(events.list, d)) = 2 /\ Len(inlineOf(d)) = 2

\* A source record is bad when its start or end is missing or unparseable.
IsBadRecord(r) ==
  \/ r.start = Null
  \/ r.end = Null
  \/ ~IsValidDate(ParseDate(r.start.dateTime))
  \/ ~IsValidDate(ParseDate(r.end.dateTime))

\* The visual events of the list made from owner email's source id
VisualsOf(email, id, oncall) ==
  {i \in 1..Len(events.list) :
     /\ events.list[i].id = email \o "-" \o id
     /\ events.list[i].isOncall = oncall}

\* C3: normalizing a batch in which some record has a missing or unparseable
\* start or end never throws; every bad record is left out of the list and
\* every valid record of the batch is in it.
C3_NormalizerTolerant ==
  /\ ~events.threw
  /\ \A e \in selectedUsers \cap DOMAIN calendars :
       \A i \in 1..Len(calendars[e]) :
         IF IsBadRecord(calendars[e][i])
         THEN VisualsOf(e, calendars[e][i].id, FALSE) = {}
         ELSE VisualsOf(e, calendars[e][i].id, FALSE) # {}
  /\ showOncall =>
       \A i \in 1..Len(oncallEvents) :
         IF IsBadRecord(oncallEvents[i])
         THEN VisualsOf(oncallEvents[i].userEmail, oncallEvents[i].id, TRUE) = {}
         ELSE VisualsOf(oncallEvents[i].userEmail, oncallEvents[i].id, TRUE) # {}

\* C4: activating a chip, inline or in the overflow popover, calls
\* onEventClick exactly when the chip is not a holiday, and then with the
\* source record that produced the chip and the chip's rectangle.
C4_EventSelectCallback ==
  [][step'.op \in {"eventClick", "popoverEventClick"} =>
       IF step'.el.isHoliday
       THEN step'.call = Null
       ELSE /\ step'.call # Null
            /\ step'.call.event = SourceOf(step'.el)
            /\ step'.call.anchor = step'.rect
    ]_vars

\* C5 as stated: selecting an event in the open overflow popover sets the
\* popover state to null and hands the event to the detail surface.
C5_SelectDestroysPopover ==
  [][step'.op = "popoverEventClick" =>
       /\ morePopover' = Null
       /\ selectedEvent' = SourceOf(step'.el)
    ]_vars

\* C5 amended: selecting an event in the open overflow popover leaves the
\* popover state as it is; a non-holiday event whose source record is in
\* the data is handed to the detail surface with the button's rectangle,
\* and any other selection leaves the detail surface as it is.
C5_SelectKeepsPopover ==
  [][step'.op = "popoverEventClick" =>
       /\ morePopover' = morePopover
       /\ morePopover' # Null
       /\ IF ~step'.el.isHoliday /\ SourceOf(step'.el) # Null
          THEN /\ selectedEvent' = SourceOf(step'.el)
               /\ eventAnchorRect' = step'.rect
          ELSE /\ selectedEvent' = selectedEvent
               /\ eventAnchorRect' = eventAnchorRect
    ]_vars

\* C5 witness: an event was selected in the popover, the detail surface
\* shows it, and the popover is still open.
C5_Witness ==
  /\ step.op = "popoverEventClick"
  /\ ~step.el.isHoliday
  /\ selectedEvent # Null
  /\ selectedEvent = SourceOf(step.el)
  /\ eventAnchorRect = step.rect
  /\ morePopover # Null

\* The pointer-down target is the indicator the open popover was opened from
OnOriginatingIndicator(target) ==
  /\ target.kind = "moreLink"
  /\ morePopover # Null
  /\ morePopover.date = Date(StartOfDay(target.day))

\* C6 as stated: with the popover open, a pointer-down outside the popover
\* and not on the originating indicator closes it, Escape closes it, and a
\* pointer-down inside the popover or on the originating indicator does not.
C6_DismissalOriginating ==
  [][morePopover # Null =>
       /\ (step'.op = "pointerDown" /\ step'.target.kind # "popover"
             /\ ~OnOriginatingIndicator(step'.target)) => morePopover' = Null
       /\ step'.op = "escape" => morePopover' = Null
       /\ (step'.op = "pointerDown"
             /\ (step'.target.kind = "popover" \/ OnOriginatingIndicator(step'.target)))
            => morePopover' = morePopover
    ]_vars

\* C6 amended: with the popover open, a pointer-down outside the popover
\* and not on any overflow indicator closes it, Escape closes it, and a
\* pointer-down inside the popover or on any overflow indicator does not.
C6_DismissalAnyIndicator ==
  [][morePopover # Null =>
       /\ (step'.op = "pointerDown" /\ step'.target.kind # "popover"
             /\ step'.target.kind # "moreLink") => morePopover' = Null
       /\ step'.op = "escape" => morePopover' = Null
       /\ (step'.op = "pointerDown"
             /\ (step'.target.kind = "popover" \/ step'.target.kind = "moreLink"))
            => morePopover' = morePopover
    ]_vars

\* C6 witness: a pointer-down on another day's indicator has left the
\* popover open.
C6_Witness ==
  /\ step.op = "pointerDown"
  /\ step.target.kind = "moreLink"
  /\ morePopover # Null
  /\ morePopover.date # Date(StartOfDay(step.target.day))

C8_RangeChangeNotified ==
  [][FcActiveRange(fcView', fcDate') # FcActiveRange(fcView, fcDate) =>
       /\ step'.notes # <<>>
       /\ Last(step'.notes).range = FcActiveRange(fcView', fcDate')
    ]_vars

\* C8 witness: wheel navigation has moved the month and the notification
\* carries the window now shown.
C8_Witness ==
  /\ step.op = "next"
  /\ step.via = "wheel"
  /\ step.notes # <<>>
  /\ Last(step.notes).range = FcActiveRange(fcView, fcDate)
  /\ fcDate # Today

\* C9: requesting the view that is already active changes neither the view,
\* the visible window nor the date anchor, calls changeView not at all and
\* fires no date-range notification.
C9_SameViewNoop ==
  [][(step'.op = "requestView" /\ step'.view = calendarView) =>
       /\ calendarView' = calendarView
       /\ fcView' = fcView
       /\ FcActiveRange(fcView', fcDate') = FcActiveRange(fcView, fcDate)
       /\ viewAnchorDate' = viewAnchorDate
       /\ step'.changeViewCalls = 0
       /\ step'.notes = <<>>
    ]_vars

\* C9 witness: the week view was requested while it was the active view.
C9_Witness ==
  /\ step.op = "requestView"
  /\ step.same
  /\ step.view = "timeGridWeek"
  /\ fcView = "timeGridWeek"

IsHexColour(hex) ==
  LET digits == IF hex # <<>> /\ Head(hex) = "#" THEN Tail(hex) ELSE hex
  IN Len(digits) = 6 /\ \A i \in 1..6 : DigitValue(digits[i]) >= 0

\* The red, green and blue channels of a valid hex colour
ChannelsOf(hex) ==
  LET digits == IF Head(hex) = "#" THEN Tail(hex) ELSE hex
  IN [k \in 1..3 |-> DigitValue(digits[2 * k - 1]) * 16 + DigitValue(digits[2 * k])]

\* The luminance of a valid hex colour as a real number, times 2 550 000
ExactLuminance(hex) ==
  ScaledLuminance(ChannelsOf(hex)[1], ChannelsOf(hex)[2], ChannelsOf(hex)[3])

\* C11 as stated: for a valid hex colour the text colour is the light
\* default #ffffff or the dark default #111827, never a third value.
C11_LightOrDarkDefault ==
  (step.op = "getAdaptiveTextColor" /\ IsHexColour(step.hex)) =>
    step.result \in {White, Gray900}

\* C11 amended: for a valid hex colour the text colour is #ffffff or
\* #1f2937, never a third value, and it is the value the function has for
\* that colour and preferLight on every call.
C11_TwoTextColours ==
  (step.op = "getAdaptiveTextColor" /\ IsHexColour(step.hex)) =>
    /\ step.result \in {White, Gray800}
    /\ step.result = getAdaptiveTextColor(step.hex, step.preferLight)

\* C11 witness: a light background got the dark text colour, which is not
\* the dark default of the malformed-input branch.
C11_Witness ==
  /\ step.op = "getAdaptiveTextColor"
  /\ IsHexColour(step.hex)
  /\ ~step.preferLight
  /\ step.result = Gray800

\* C12: for input that is not a 6-hex-digit colour (empty, wrong length, or
\* six characters that are not all hex digits) the text colour is the safe
\* default: #ffffff with preferLight, #111827 without.
C12_MalformedSafeDefault ==
  (step.op = "getAdaptiveTextColor" /\ ~IsHexColour(step.hex)) =>
    step.result = (IF step.preferLight THEN White ELSE Gray900)

\* C13: for a valid hex colour with luminance L, with preferLight the text
\* is white exactly when L < 0.75; without preferLight it is white when
\* L < 0.5 and not white when L > 0.5.
C13_LuminanceThresholds ==
  (step.op = "getAdaptiveTextColor" /\ IsHexColour(step.hex)) =>
    IF step.preferLight
    THEN (step.result = White) <=> (ExactLuminance(step.hex) < 1912500)
    ELSE /\ ExactLuminance(step.hex) < 1275000 => step.result = White
         /\ ExactLuminance(step.hex) > 1275000 => step.result # White

\* The character in lower case
LowerCase(c) == IF DigitValue(c) >= 10 THEN LowerDigits[DigitValue(c) + 1] ELSE c

\* A valid hex colour written as '#' and six lower-case digits
Canonical(hex) ==
  LET digits == IF Head(hex) = "#" THEN Tail(hex) ELSE hex
  IN <<"#">> \o [i \in 1..6 |-> LowerCase(digits[i])]

\* Each channel of the result lies between the input's channel and 255
ChannelsTowardWhite(hex, result) ==
  /\ IsHexColour(result)
  /\ \A k \in 1..3 : ChannelsOf(hex)[k] <= ChannelsOf(result)[k] /\ ChannelsOf(result)[k] <= 255

\* C14 as stated: for a valid hex colour lightenColor(hex, 0) is hex,
\* lightenColor(hex, 1) is #ffffff, and for a ratio in [0, 1] every output
\* channel is a whole number in [0, 255] between the input channel and 255.
C14_LightenBoundaryLaw ==
  (step.op = "lightenColor" /\ IsHexColour(step.hex)) =>
    /\ step.percent = 0 => step.result = step.hex
    /\ step.percent = 100 => step.result = White
    /\ ChannelsTowardWhite(step.hex, step.result)

\* C14 amended: for a valid hex colour lightenColor(hex, 0) is the colour
\* of hex written as '#' and six lower-case digits, lightenColor(hex, 1) is
\* #ffffff, and for a ratio in [0, 1] every output channel is a whole number
\* in [0, 255] between the input channel and 255.
C14_LightenCanonicalLaw ==
  (step.op = "lightenColor" /\ IsHexColour(step.hex)) =>
    /\ step.percent = 0 => step.result = Canonical(step.hex)
    /\ step.percent = 100 => step.result = White
    /\ ChannelsTowardWhite(step.hex, step.result)

\* C14 witness: a colour lightened by 0.88 lies strictly between the colour
\* and white in its red channel.
C14_Witness ==
  /\ step.op = "lightenColor"
  /\ IsHexColour(step.hex)
  /\ step.percent = 88
  /\ ChannelsOf(step.hex)[1] < ChannelsOf(step.result)[1]
  /\ ChannelsOf(step.result)[1] < 255

\* C15: in the produced list two visual events have the same id only if
\* they are of the same category and the same owner; no personal event's id
\* is the id of a holiday or of an on-call event.
C15_IdsCollisionFree ==
  \A i, j \in 1..Len(events.list) :
    (i # j /\ events.list[i].id = events.list[j].id) =>
      /\ events.list[i].isHoliday = events.list[j].isHoliday
      /\ events.list[i].isOncall = events.list[j].isOncall
      /\ events.list[i].userEmail = events.list[j].userEmail

\* The horizontal positions the preference order allows: right of the
\* anchor when the content then ends at or before the right padding, else
\* left of the anchor when that starts at or after the left padding, else
\* the side with more room (either side when they have the same room)
\* clamped into [pad, vw - width - pad].
PreferredLefts(anchor, width, vw, pad, space) ==
  LET rightOf == anchor.right + space
      leftOf == anchor.left - width - space
      roomRight == vw - anchor.right - pad
      roomLeft == anchor.left - pad
      Clamped(x) == Max(pad, Min(x, vw - width - pad))
  IN IF rightOf + width <= vw - pad THEN {rightOf}
     ELSE IF leftOf >= pad THEN {leftOf}
     ELSE {Clamped(rightOf) : x \in {r \in {roomRight} : r >= roomLeft}}
          \cup {Clamped(leftOf) : x \in {r \in {roomLeft} : r >= roomRight}}

\* The detail card's left follows the preference order
CardLeftPreferred ==
  (selectedEvent # Null /\ eventAnchorRect # Null) =>
    positionStyle.left \in PreferredLefts(eventAnchorRect, CardWidth(cardSize),
                                          win.innerWidth, cardViewportPadding, gap)

\* The overflow popover's target left follows the preference order
PopoverLeftPreferred ==
  (morePopover # Null /\ lastMorePopoverPosition # Null) =>
    lastMorePopoverPosition.left \in PreferredLefts(morePopover.anchorRect, popRect.width,
                                                    win.innerWidth, viewportPadding, offset)

\* C16: the left of the placed content, for the detail card and for the
\* overflow popover, is the one the preference order gives: right of the
\* anchor if it fits, else left of the anchor if it fits, else the side with
\* more room clamped into [padding, viewportWidth - width - padding].
C16_HorizontalPreference == CardLeftPreferred /\ PopoverLeftPreferred

\* C17: pressing '?' while the focus is not in an input, textarea or editable
\* element and no Ctrl/Cmd/Alt modifier is held opens the keyboard-shortcuts
\* help dialog: showKeyboardHelp is true afterwards.
C17_HelpKeyOpensDialog ==
  [][(/\ step'.op = "keydown"
      /\ step'.key = "?"
      /\ step'.target \notin EditableTargets
      /\ ~step'.modifier) => showKeyboardHelp']_vars

\* The number of registered document listeners of the popover for an event type
ListenerCount(type) == Cardinality({i \in 1..Len(listeners) : listeners[i].type = type})

\* C18: the popover's document-level pointer-down and key-down listeners do
\* not leak: whatever opens, re-renders and closes came before, at most one
\* pointer-down and one key-down listener are registered while the popover
\* is open, and none is registered once it is closed.
C18_ListenersDoNotLeak ==
  /\ morePopover # Null =>
       /\ ListenerCount("pointerdown") <= 1
       /\ ListenerCount("keydown") <= 1
  /\ morePopover = Null => listeners = <<>>

\* The effect has run again on a re-render of the open popover, and its
\* listeners are the two of the latest run.
C18_Witness ==
  /\ step.op = "rerender"
  /\ morePopover # Null
  /\ listeners = <<PointerDownListener, KeyDownListener>>

\* C19: when the popover is dismissed while a next-frame positioning callback
\* is scheduled and has not run, nothing throws and the callback is never
\* invoked after the popover has been torn down: every frame callback that
\* runs belongs to a popover instance that is still mounted.
C19_NoFrameAfterTeardown ==
  [][step'.op = "frame" => step'.live]_vars

\* The target the placement effect computes for the popover data stored now
TargetNow == computePosition(morePopover.anchorRect, popRect, win)

\* Is a frame callback of the mounted popover still outstanding?
FramePending == \E i \in 1..Len(pendingFrames) : pendingFrames[i].live

\* The placement effect has just run (a click on an indicator or a re-render)
Placed == step.op \in {"moreLinkClick", "rerender"}

\* C20: placed with a previousPosition, the popover is first rendered at the
\* previousPosition and moves to the freshly computed target on the next
\* animation frame; with no previousPosition it is at the target at once.
\* Once all pending frames have run the rendered position is the target
\* computed from the most recent popover data, also when a second indicator
\* was clicked before the first transition's frame had run.
C20_ContinuityThenTarget ==
  /\ (Placed /\ morePopover.previousPosition # Null) =>
       /\ position = morePopover.previousPosition
       /\ pendingFrames[Len(pendingFrames)] = [target |-> TargetNow, live |-> TRUE]
  /\ (Placed /\ morePopover.previousPosition = Null) => position = TargetNow
  /\ (step.op = "frame" /\ step.live) => position = step.target
  /\ (morePopover # Null /\ ~FramePending) => position = TargetNow

\* A second indicator has been clicked before the first transition's frame
\* has run: two callbacks of the mounted popover with different targets are
\* outstanding and the popover is rendered at the first click's target.
C20_Witness ==
  /\ step.op = "moreLinkClick"
  /\ Len(pendingFrames) = 2
  /\ pendingFrames[1].live
  /\ pendingFrames[1].target # pendingFrames[2].target
  /\ position = pendingFrames[1].target
  /\ position # TargetNow

\* C21: the month view's row height is recomputed whenever the viewport
\* resizes or the displayed month's week-row count changes, always with the
\* row count of the displayed month: whatever navigations and resizes came
\* before, the applied row height is clamp((latest measured height - 64) /
\* current row count).
C21_RowHeightFollowsRowCount ==
  (fcView = "dayGridMonth" /\ calendarViewportHeight # Null) =>
    dayFrameMinHeight = Px(RowHeight(calendarViewportHeight.px, monthWeekRowCount))

\* C22: for every measured height and row count the row height applied to
\* the grid lies in the band [48, 120] pixels, and the derived week-row
\* count is at least 1.
C22_RowHeightInBand ==
  /\ dayFrameMinHeight # Null =>
       (48 <= dayFrameMinHeight.px /\ dayFrameMinHeight.px <= 120)
  /\ monthWeekRowCount >= 1

\* A measurement whose raw row height, (100 - 64) / 6, is below the band has
\* been applied, in a month of fewer than six rows.
C22_Witness ==
  /\ step.op = "resize"
  /\ step.measured = 100
  /\ dayFrameMinHeight = Px(48)
  /\ fcView = "dayGridMonth"
  /\ monthWeekRowCount < 6

\* What a resize notification with this measurement stores
StoresMeasurement(measured) ==
  /\ calendarViewportHeight' = Px(measured)
  /\ dayFrameMinHeight' = Px(RowHeight(measured, MountRowCount))

\* C23 (as stated): after any sequence of resize notifications the stored
\* viewport height and the applied row height are those computed from the
\* latest measurement alone.
C23_LastWriteWins ==
  [][step'.op = "resize" => StoresMeasurement(step'.measured)]_vars

\* C23 (amended): after any sequence of resize notifications the stored
\* viewport height and the applied row height are those computed from the
\* latest non-zero measurement alone; a notification that measures zero
\* leaves both as they were.
C23_LastMeasuredWins ==
  [][step'.op = "resize" =>
       IF step'.measured # 0 THEN StoresMeasurement(step'.measured)
       ELSE UNCHANGED <<calendarViewportHeight, dayFrameMinHeight>>]_vars

\* Without observer support, the window's resize listener has stored its
\* measurement, whose raw row height 339 / 6 = 56.5 rounds up.
C23_Witness ==
  /\ step.op = "resize"
  /\ step.via = "window"
  /\ step.measured = 403
  /\ calendarViewportHeight = Px(403)
  /\ dayFrameMinHeight = Px(57)

\* The top the vertical rule gives: the anchor's top when the content ends
\* at or above vh - pad, else vh - height - pad, and never less than pad
ShiftedTop(anchorTop, height, vh, pad) ==
  Max(pad, IF anchorTop + height <= vh - pad THEN anchorTop ELSE vh - height - pad)

\* The detail card's top follows the vertical rule, with the default
\* height when the measured height is zero
CardTopShifted ==
  (selectedEvent # Null /\ eventAnchorRect # Null) =>
    positionStyle.top = ShiftedTop(eventAnchorRect.top, CardHeight(cardSize),
                                   win.innerHeight, cardViewportPadding)

\* The overflow popover's target top follows the vertical rule
PopoverTopShifted ==
  (morePopover # Null /\ lastMorePopoverPosition # Null) =>
    lastMorePopoverPosition.top = ShiftedTop(morePopover.anchorRect.top, popRect.height,
                                             win.innerHeight, viewportPadding)

\* C24: vertical placement, for the overflow popover and for the detail
\* card, returns the anchor's top when the content fits above
\* viewportHeight - padding, otherwise viewportHeight - height - padding
\* (shifted up just enough to fit), and never a top less than padding; a
\* zero measured size is replaced by a default size.
C24_VerticalPlacement == CardTopShifted /\ PopoverTopShifted

\* C25: a holiday defined on civil date D in Asia/Taipei (UTC+8) is rendered
\* on day cell D for every viewer time-zone offset, so that two viewers with
\* different offsets see it on the same calendar day.
C25_HolidayOnItsDate ==
  step.op = "renderHoliday" => step.cells = {step.date}

\* Is there an event of this kind, owner and id in the derived list?
Listed(holiday, oncall, email, id) ==
  \E i \in 1..Len(events.list) :
    /\ events.list[i].isHoliday = holiday
    /\ events.list[i].isOncall = oncall
    /\ events.list[i].userEmail = email
    /\ events.list[i].id = id

\* The colour an owner's events are derived from: the override when there
\* is one, the owner's base colour otherwise
OwnerColour(email) ==
  IF email \in DOMAIN userColorOverrides THEN userColorOverrides[email]
  ELSE (CHOOSE u \in {users[i] : i \in 1..Len(users)} : u.email = email).color

\* The derived list shows the source records the preferences ask for, in
\* their owners' colours (lightened by 88% once the event has ended)
ListFaithful ==
  /\ \A e \in DOMAIN calendars : \A i \in 1..Len(calendars[e]) :
       Listed(FALSE, FALSE, e, e \o "-" \o calendars[e][i].id) <=> e \in selectedUsers
  /\ \A i \in 1..Len(TAIWAN_HOLIDAYS) :
       Listed(TRUE, FALSE, "holiday@taiwan", "holiday-" \o TAIWAN_HOLIDAYS[i].id)
         <=> showHolidays
  /\ \A i \in 1..Len(oncallEvents) :
       Listed(FALSE, TRUE, oncallEvents[i].userEmail,
              oncallEvents[i].userEmail \o "-" \o oncallEvents[i].id) <=> showOncall
  /\ \A i \in 1..Len(events.list) :
       LET v == events.list[i]
       IN (~v.isHoliday /\ v.userEmail \in UserEmails(users)) =>
            v.backgroundColor = IF v.isPast THEN lightenColor(OwnerColour(v.userEmail), 88)
                                ELSE OwnerColour(v.userEmail)

\* Whenever the list was built it is faithful
BuiltListFaithful == ~events.threw => ListFaithful

\* C26: after every change of source data or display preferences the
\* derived event list is there and contains a personal event exactly when
\* its owner is selected, a holiday exactly when holidays are shown, an
\* on-call event exactly when on-call is shown, each in the colour derived
\* from its owner's override when one exists and from the owner's base
\* colour otherwise.
C26_DerivedListFaithful == ~events.threw /\ ListFaithful

\* C27: no component retains event objects across rebuilds: after any
\* rebuild of the derived event list every event shown by a surface, the
\* list of an overflow popover that was already open included, belongs to
\* the current derived event list.
C27_NoRetainedEvents ==
  morePopover # Null =>
    \A i \in 1..Len(morePopover.events) :
      \E j \in 1..Len(events.list) : events.list[j] = morePopover.events[i]

\* Does the active date of an onDateRangeChange call lie in its window?
InWindow(note) ==
  /\ note.range.start.time <= note.activeDate.time
  /\ note.activeDate.time < note.range.end.time

\* C28: whenever the calendar view fires onDateRangeChange(range,
\* activeDate), range.start <= activeDate < range.end, for every view mode
\* and every navigation, also when the calendar's current date is the
\* window's start; so the application's date anchor follows every
\* navigation.
C28_ActiveDateInWindow ==
  []["notes" \in DOMAIN step' =>
       \A i \in 1..Len(step'.notes) : InWindow(step'.notes[i])]_vars

\* The selection holds current users only, and all of them as long as
\* nothing was selected by hand
SelectionCurrent ==
  /\ selectedUsers \subseteq UserEmails(users)
  /\ ~hasUserSelectionInitialized => selectedUsers = UserEmails(users)

\* After a selection by hand a refresh only removes owners, and only those
\* the new user list (us) no longer holds
RefreshKeepsManual(us) ==
  (step'.op = "dataRefresh" /\ hasUserSelectionInitialized) =>
    /\ selectedUsers' \subseteq selectedUsers
    /\ selectedUsers \cap us \subseteq selectedUsers'

\* C29 as stated: once the user list has loaded, the selected-user set is
\* always a subset of the current users' emails; before any manual
\* selection it equals all users; after one it is the manual selection
\* minus the users that no longer exist, and an emptied selection is never
\* reset to all users by a later refresh.
C29_SelectionWithinUsers ==
  /\ []SelectionCurrent
  /\ [][RefreshKeepsManual(UserEmails(users'))]_vars

\* C29 amended: the same whenever the current user list is not empty;
\* while a response lists no users the selection is left as it was.
C29_SelectionWithinLoadedUsers ==
  /\ [](Len(users) > 0 => SelectionCurrent)
  /\ [][RefreshKeepsManual(IF Len(users') = 0 THEN selectedUsers
                           ELSE UserEmails(users'))]_vars

\* A refresh that delivered both users after the selection was emptied by
\* hand: nobody is selected
C29_Witness ==
  /\ step.op = "dataRefresh"
  /\ hasUserSelectionInitialized
  /\ Len(users) = 2
  /\ selectedUsers = {}

\* Nothing of an '/api/' URL or of a request other than GET is stored or
\* about to be stored, and a pending cache.put carries a status of 200
CacheClean ==
  /\ \A u \in DOMAIN swCache : ~IncludesApi(u)
  /\ \A put \in swPuts :
       /\ put.request.method = "GET"
       /\ ~IncludesApi(put.request.url)
       /\ put.response.status = 200

\* What the worker does on a step: a cached response answers only a GET
\* request without '/api/' whose network fetch has just failed; other
\* requests are neither answered nor change the worker's state
AnswersFaithful ==
  /\ (step'.op = "respond" /\ step'.from = "cache") =>
       /\ step'.request.method = "GET"
       /\ ~IncludesApi(step'.request.url)
       /\ step'.request \in swFetches
       /\ step'.networkFailed
  /\ (step'.op \in {"fetch", "respond", "put"}
        /\ (step'.request.method # "GET" \/ IncludesApi(step'.request.url))) =>
       /\ step'.op = "fetch"
       /\ ~step'.responded
       /\ UNCHANGED workerVars

\* C30 as stated: the service worker serves a cached response only for a
\* GET request whose URL does not contain '/api/', and only after the
\* network fetch of that request failed; '/api/' and non-GET requests are
\* never answered by it and never written to its cache; every response in
\* its cache has status 200.
C30_WorkerCaching ==
  /\ [](CacheClean /\ \A u \in DOMAIN swCache : swCache[u].response.status = 200)
  /\ [][AnswersFaithful]_vars

\* C30 amended: the same, with the status rule for the fetch listener
\* only: a response the fetch listener stored has status 200, and a
\* response stored at install belongs to a static asset and has an ok
\* status (200..299, not 206).
C30_WorkerCachingByListener ==
  /\ [](CacheClean
        /\ \A u \in DOMAIN swCache :
             IF swCache[u].storedBy = "put" THEN swCache[u].response.status = 200
             ELSE u \in StaticUrls /\ addAllAccepts(swCache[u].response))
  /\ [][AnswersFaithful]_vars

\* The network failed for '/assets/app.js' and the worker answered with
\* the response its fetch listener had stored earlier
C30_Witness ==
  /\ step.op = "respond"
  /\ step.from = "cache"
  /\ step.storedBy = "put"
  /\ step.request.url = <<"assets", "app.js">>
  /\ step.response = Response(200, "fresh")

====
